---- MODULE Spec2Model ----
(***************************************************************************)
(* Warden / The Sentinel: the remediation pipeline of src/src/orchestrator *)
(* (runWarden, runSecurityScan, orchestrateFix), the Snyk and npm-audit    *)
(* scanners, the Engineer (diagnose, applyFix, GitManager) and the         *)
(* Diplomat (createPullRequest), as one state machine.  Every external     *)
(* call (scanner process, npm, git, file write, GitHub request) is a step  *)
(* whose outcome is drawn from the outcomes the call can have.             *)
(***************************************************************************)
EXTENDS Integers, Sequences, FiniteSets, TLC

\* ------------------------------------------------------------------------
\* Bounds of the model
\* ------------------------------------------------------------------------
\* longest list of findings a scanner prints
MaxFindings == 2

\* ------------------------------------------------------------------------
\* JavaScript values
\* ------------------------------------------------------------------------
\* the value undefined of a string-valued property
UNDEF == "<undefined>"

\* o[k] of a JavaScript object: undefined when the key is absent
Get(o, k) == IF k \in DOMAIN o THEN o[k] ELSE UNDEF

\* a || b on string-valued operands (undefined and "" are falsy)
OrElse(a, b) == IF a = UNDEF \/ a = "" THEN b ELSE a

\* !x on a string-valued operand
Falsy(x) == x = UNDEF \/ x = ""

\* String.prototype.toLowerCase on the spellings scanners print
toLowerCase(s) ==
    CASE s = "HIGH" -> "high"
      [] s = "Critical" -> "critical"
      [] s = "OpenSSH" -> "openssh"
      [] OTHER -> s

\* String.prototype.toUpperCase on the four tiers
toUpperCase(s) ==
    CASE s = "critical" -> "CRITICAL"
      [] s = "high" -> "HIGH"
      [] s = "medium" -> "MEDIUM"
      [] s = "low" -> "LOW"
      [] OTHER -> s

\* `${x}` of a value that is a list of words or undefined (<<>> models an
\* undefined list element): undefined prints as the word "undefined"
Interpolate(words) == IF words = <<>> THEN <<"undefined">> ELSE words

\* arr[0] of a list of word lists: undefined (<<>>) when the list is empty
First(arr) == IF Len(arr) = 0 THEN <<>> ELSE arr[1]

\* ------------------------------------------------------------------------
\* Findings and reports
\* ------------------------------------------------------------------------
validSeverities == {"low", "medium", "high", "critical"}

SEVERITY_PRIORITY == [critical |-> 4, high |-> 3, medium |-> 2, low |-> 1]

\* number of findings of tier sev in a list
CountSeverity(vulns, sev) ==
    Cardinality({i \in 1..Len(vulns) : vulns[i].severity = sev})

\* the summary both parsers build while pushing the findings: total counts
\* every finding, a tier counter counts the findings of that tier
CountSummary(vulns) ==
    [total |-> Len(vulns),
     critical |-> CountSeverity(vulns, "critical"),
     high |-> CountSeverity(vulns, "high"),
     medium |-> CountSeverity(vulns, "medium"),
     low |-> CountSeverity(vulns, "low")]

\* what `snyk test --json` can print: one element of data.vulnerabilities.
\* Versions are lists of words (a version has one word, an npm range may
\* have several); cvssScore is <<n>> (tenths) or <<>> when absent.
SnykLodash ==
    [id |-> "SNYK-JS-LODASH-590103", title |-> "Prototype Pollution",
     severity |-> "critical", packageName |-> "lodash",
     version |-> <<"4.17.15">>, fixedIn |-> << <<"4.17.21">> >>,
     cvssScore |-> <<98>>]

SnykAxiosNoFix ==
    [id |-> "SNYK-JS-AXIOS-1038255", title |-> "SSRF",
     severity |-> "HIGH", name |-> "axios",
     version |-> <<"0.21.0">>, cvssScore |-> <<75>>]

SnykMinimist ==
    [id |-> "SNYK-JS-MINIMIST-559764", title |-> "Prototype Pollution",
     severity |-> "medium", packageName |-> "minimist",
     version |-> <<"1.2.0">>, fixedIn |-> << <<"1.2.6">> >>]

SnykModerate ==
    [id |-> "SNYK-JS-QS-1", title |-> "DoS",
     severity |-> "moderate", packageName |-> "qs",
     version |-> <<"6.5.0">>, fixedIn |-> << <<"6.5.3">> >>,
     cvssScore |-> <<53>>]

SnykRawPool == {SnykLodash, SnykAxiosNoFix, SnykMinimist, SnykModerate}

\* the lists of at most n elements of S
SeqUpTo(S, n) == UNION {[1..k -> S] : k \in 0..n}

\* the outputs of `snyk test --json`: JSON with a vulnerabilities array, or
\* text that is no JSON
SnykOutputs ==
    {[json |-> TRUE, vulnerabilities |-> vs] : vs \in SeqUpTo(SnykRawPool, MaxFindings)}
    \cup {[json |-> FALSE]}

\* one entry of the vulnerabilities object of `npm audit --json`
AuditLodash ==
    [key |-> "lodash", name |-> "lodash", severity |-> "high",
     range |-> <<"<4.17.21">>, fixAvailable |-> TRUE, viaTitle |-> "Prototype Pollution"]

AuditModerate ==
    [key |-> "minimist", name |-> "minimist", severity |-> "moderate",
     range |-> <<">=1.0.0", "<1.2.6">>, fixAvailable |-> FALSE, viaTitle |-> "Prototype Pollution"]

AuditNoName ==
    [key |-> "axios", severity |-> "critical",
     range |-> <<"0.21.0">>, fixAvailable |-> TRUE, viaTitle |-> "SSRF"]

AuditRawPool == {AuditLodash, AuditModerate, AuditNoName}

AuditOutputs ==
    {[json |-> TRUE, vulnerabilities |-> vs] : vs \in SeqUpTo(AuditRawPool, MaxFindings)}
    \cup {[json |-> FALSE]}

\* npm-audit: severity words npm prints, mapped to the four tiers
SEVERITY_MAPPING(s) ==
    CASE s = "critical" -> "critical"
      [] s = "high" -> "high"
      [] s = "moderate" -> "medium"
      [] s = "medium" -> "medium"
      [] s = "low" -> "low"
      [] s = "info" -> "low"
      [] OTHER -> UNDEF

parseSeverity(severityStr) ==
    OrElse(SEVERITY_MAPPING(toLowerCase(OrElse(severityStr, "low"))), "medium")

\* NpmAuditScanner.formatVulnerabilities: one finding per entry
formatVulnerability(vuln) ==
    [id |-> "NPM-" \o vuln.key \o "-audit",
     title |-> Get(vuln, "viaTitle"),
     severity |-> parseSeverity(Get(vuln, "severity")),
     packageName |-> Get(vuln, "name"),
     version |-> IF "range" \in DOMAIN vuln THEN vuln.range ELSE <<"unknown">>,
     fixedIn |-> IF vuln.fixAvailable THEN << <<"npm", "audit", "fix">> >> ELSE <<>>,
     cvssScore |-> <<>>]

\* NpmAuditScanner.parseAuditOutput on JSON output (the caller has parsed it)
parseAuditOutput(data) ==
    LET vulnerabilities == [i \in 1..Len(data.vulnerabilities) |->
                               formatVulnerability(data.vulnerabilities[i])]
    IN  [vulnerabilities |-> vulnerabilities,
         summary |-> CountSummary(vulnerabilities),
         metadata |-> <<>>]

\* SnykScanner.parseSnykOutput: one finding per element, with its defaults
parseSnykVuln(vuln) ==
    [id |-> OrElse(Get(vuln, "id"), "unknown"),
     title |-> OrElse(Get(vuln, "title"), "Unknown vulnerability"),
     severity |-> toLowerCase(OrElse(Get(vuln, "severity"), "low")),
     packageName |-> OrElse(Get(vuln, "packageName"), OrElse(Get(vuln, "name"), "unknown")),
     version |-> IF "version" \in DOMAIN vuln THEN vuln.version ELSE <<"unknown">>,
     fixedIn |-> IF "fixedIn" \in DOMAIN vuln THEN vuln.fixedIn ELSE <<>>,
     cvssScore |-> IF "cvssScore" \in DOMAIN vuln THEN vuln.cvssScore ELSE <<>>]

\* the report parseSnykOutput builds (before it saves it)
parseSnykOutput(data) ==
    LET vulnerabilities == [i \in 1..Len(data.vulnerabilities) |->
                               parseSnykVuln(data.vulnerabilities[i])]
    IN  [vulnerabilities |-> vulnerabilities,
         summary |-> CountSummary(vulnerabilities),
         metadata |-> <<>>]

\* SnykScanner.validateScanResult: TRUE when it does not throw
validateScanResult(result) ==
    \A i \in 1..Len(result.vulnerabilities) :
        LET vuln == result.vulnerabilities[i] IN
        /\ ~Falsy(vuln.id)
        /\ ~Falsy(vuln.title)
        /\ ~Falsy(vuln.severity)
        /\ ~Falsy(vuln.packageName)
        /\ vuln.version # <<>>
        /\ vuln.severity \in validSeverities

\* SnykScanner.filterHighPriority
filterHighPriority(result) ==
    SelectSeq(result.vulnerabilities,
              LAMBDA v : v.severity = "critical" \/ v.severity = "high")

\* JSON.stringify of a finding: properties whose value is undefined are
\* left out of the document
stringifyVuln(v) ==
    LET keep == {k \in DOMAIN v :
                    /\ ~(k \in {"id", "title", "severity", "packageName"} /\ v[k] = UNDEF)
                    /\ ~(k = "cvssScore" /\ v[k] = <<>>)}
    IN  [k \in keep |-> v[k]]

\* JSON.stringify(result, null, 2): the document that is written to disk
stringify(result) ==
    LET base == [vulnerabilities |-> [i \in 1..Len(result.vulnerabilities) |->
                                         stringifyVuln(result.vulnerabilities[i])],
                 summary |-> result.summary]
    IN  IF result.metadata = <<>>
        THEN base
        ELSE [k \in {"vulnerabilities", "summary", "metadata"} |->
                 IF k = "metadata" THEN result.metadata[1] ELSE base[k]]

\* ------------------------------------------------------------------------
\* The Engineer: prioritisation and diagnosis
\* ------------------------------------------------------------------------
\* SEVERITY_PRIORITY[s]: <<n>> for a tier, <<>> (undefined) for anything else
Priority(s) == IF s \in validSeverities THEN <<SEVERITY_PRIORITY[s]>> ELSE <<>>

\* x - y of two numbers that may be undefined: <<d>>, or <<>> for NaN
Minus(x, y) == IF x = <<>> \/ y = <<>> THEN <<>> ELSE <<x[1] - y[1]>>

\* the comparator of prioritizeVulnerabilities, as sort reads it: a negative
\* number, zero or a positive number, NaN counting as zero
Comparator(a, b) ==
    LET priorityDiff == Minus(Priority(Get(b, "severity")), Priority(Get(a, "severity")))
        scoreDiff == Minus(IF "cvssScore" \in DOMAIN b THEN b.cvssScore ELSE <<>>,
                           IF "cvssScore" \in DOMAIN a THEN a.cvssScore ELSE <<>>)
    IN  IF priorityDiff # <<0>>
        THEN (IF priorityDiff = <<>> THEN 0 ELSE priorityDiff[1])
        ELSE (IF scoreDiff = <<>> THEN 0 ELSE scoreDiff[1])

RECURSIVE InsertSorted(_, _)
\* stable insertion of x into a list already sorted by Comparator
InsertSorted(sorted, x) ==
    IF sorted = <<>> THEN <<x>>
    ELSE LET last == sorted[Len(sorted)] IN
         IF Comparator(last, x) > 0
         THEN Append(InsertSorted(SubSeq(sorted, 1, Len(sorted) - 1), x), last)
         ELSE Append(sorted, x)

RECURSIVE SortPrefix(_, _)
SortPrefix(vulns, n) ==
    IF n = 0 THEN <<>> ELSE InsertSorted(SortPrefix(vulns, n - 1), vulns[n])

\* EngineerAgent.prioritizeVulnerabilities: [...v].sort(comparator), a
\* stable sort
prioritizeVulnerabilities(vulnerabilities) ==
    SortPrefix(vulnerabilities, Len(vulnerabilities))

\* EngineerAgent.canAttemptFix
canAttemptFix(vuln) == "fixedIn" \in DOMAIN vuln /\ Len(vuln.fixedIn) > 0

\* one word of a template string from a string-valued property
Word(s) == IF s = UNDEF THEN "undefined" ELSE s

\* the Diagnosis diagnose builds for one finding read back from the file.
\* suggestedFix is the sentence `Update ${packageName} from ${version} to
\* ${fixedIn[0]}` as its list of words.
makeDiagnosis(vuln) ==
    [vulnerabilityId |-> Get(vuln, "id"),
     description |-> [title |-> Get(vuln, "title"),
                      packageName |-> Get(vuln, "packageName"),
                      version |-> vuln.version,
                      severity |-> toUpperCase(Get(vuln, "severity"))],
     suggestedFix |-> <<"Update", Word(Get(vuln, "packageName")), "from">>
                      \o Interpolate(vuln.version)
                      \o <<"to">>
                      \o Interpolate(First(vuln.fixedIn)),
     filesToModify |-> <<"package.json">>]

\* EngineerAgent.diagnose on the parsed document (SAST): every finding,
\* highest priority first
diagnose(doc) ==
    LET prioritized == prioritizeVulnerabilities(doc.vulnerabilities)
    IN  [i \in 1..Len(prioritized) |-> makeDiagnosis(prioritized[i])]

\* suggestedFix.match(/Update\s+([^\s]+)\s+from\s+([^\s]+)\s+to\s+([^\s]+)/)
\* on the words of the sentence: <<>> for no match, else
\* <<packageName, newVersion>> of the leftmost match
matchSuggestedFix(words) ==
    LET hits == {i \in 1..(Len(words) - 5) :
                    /\ words[i] = "Update"
                    /\ words[i + 2] = "from"
                    /\ words[i + 4] = "to"}
    IN  IF hits = {} THEN <<>>
        ELSE LET i == CHOOSE j \in hits : \A k \in hits : j <= k
             IN  <<words[i + 1], words[i + 5]>>

\* the branch applyFix works on
fixBranchName(packageName) == "warden/fix-" \o packageName

\* topIssue.description.match(/in ([a-z0-9-]+)@/)?.[1] || 'unknown' for the
\* description `${title} in ${packageName}@${version} (...)`: the package
\* name when it is made of a-z, 0-9 and '-' only
SimpleNames == {"lodash", "axios", "minimist", "dotenv", "qs", "undefined"}

descriptionPackage(description) ==
    IF Word(description.packageName) \in SimpleNames
    THEN Word(description.packageName)
    ELSE "unknown"

\* ------------------------------------------------------------------------
\* package.json and the git repository of the working directory
\* ------------------------------------------------------------------------
\* package.json contents the target can start with: the vulnerable packages
\* as direct dependencies, as devDependencies only, or not declared at all
\* (transitive only)
ManifestDirect ==
    [dependencies |-> [lodash |-> "4.17.15", axios |-> "0.21.0"],
     devDependencies |-> <<>>]

ManifestDev ==
    [dependencies |-> <<>>,
     devDependencies |-> [lodash |-> "4.17.15"]]

ManifestTransitive ==
    [dependencies |-> [express |-> "4.18.0"],
     devDependencies |-> <<>>]

\* the developer's uncommitted edit of package.json
ManifestEdited ==
    [dependencies |-> [lodash |-> "4.17.20", axios |-> "0.21.0"],
     devDependencies |-> <<>>]

NoManifest == [missing |-> TRUE]

\* packageJson.dependencies[packageName] = newVersion and the same for
\* devDependencies, each where the package is declared (lines 300-312)
updateDependency(packageJson, packageName, newVersion) ==
    [dependencies |->
        IF packageName \in DOMAIN packageJson.dependencies
        THEN [packageJson.dependencies EXCEPT ![packageName] = newVersion]
        ELSE packageJson.dependencies,
     devDependencies |->
        IF packageName \in DOMAIN packageJson.devDependencies
        THEN [packageJson.devDependencies EXCEPT ![packageName] = newVersion]
        ELSE packageJson.devDependencies]

\* an applyFix that takes every package for a direct dependency
isDirectDependency_always(packageJson, packageName) == TRUE

\* the flag `updated` of applyFix
isDirectDependency(packageJson, packageName) ==
    \/ packageName \in DOMAIN packageJson.dependencies
    \/ packageName \in DOMAIN packageJson.devDependencies

\* the version package.json declares for a package ("" when undeclared)
declaredVersion(packageJson, packageName) ==
    IF "missing" \in DOMAIN packageJson THEN ""
    ELSE IF packageName \in DOMAIN packageJson.dependencies
         THEN packageJson.dependencies[packageName]
    ELSE IF packageName \in DOMAIN packageJson.devDependencies
         THEN packageJson.devDependencies[packageName]
    ELSE ""


\* a committed or working tree: package.json, the lock artifact (named by
\* the package.json it was resolved from) and whether the developer's own
\* file notes.txt is in it
Tree(manifest, lock, notes) == [manifest |-> manifest, lock |-> lock, notes |-> notes]

\* git checkout <branch>: for one path, the content after switching from
\* commit `from` to commit `to` with local content `local`
switchPath(local, from, to) ==
    IF local = from THEN to ELSE local

\* git refuses the switch when a path differs between the two commits and
\* holds local changes that match neither
pathConflicts(local, from, to) == local # from /\ to # from /\ local # to

TreePaths == {"manifest", "lock", "notes"}

switchTree(local, from, to) ==
    [f \in TreePaths |-> switchPath(local[f], from[f], to[f])]

switchConflicts(local, from, to) ==
    \E f \in TreePaths : pathConflicts(local[f], from[f], to[f])

\* ------------------------------------------------------------------------
\* Scan results on disk, and the scanners' constants
\* ------------------------------------------------------------------------
Absent == [kind |-> "absent"]
Partial == [kind |-> "partial"]
Json(doc) == [kind |-> "json", doc |-> doc]

\* SnykScanner's default maxRetries
maxRetries == 3

\* `let retryCount = 0` of SnykScanner.test, which nothing assigns again
retryCount == 0

\* a retryWithBackoff that takes every error for a transient one
isTransient_anyError(error) == TRUE

\* the error classes retryWithBackoff retries: killed / SIGTERM, and
\* ENOTFOUND / ECONNREFUSED
isTransient(error) == error \in {"killed", "network"}

\* the error the callback of the scan hands to retryWithBackoff: a timeout
\* (killed) is rethrown as a new Error, which carries neither killed nor
\* signal
scanCallbackError(error) == IF error = "killed" THEN "timeout-message" ELSE error

\* retryWithBackoff's test for another attempt
shouldRetry(attemptNo, error) == attemptNo < maxRetries /\ isTransient(error)

\* the fallback result test() saves when the scan failed
fallbackResult ==
    [vulnerabilities |-> <<>>,
     summary |-> [total |-> 0, critical |-> 0, high |-> 0, medium |-> 0, low |-> 0],
     metadata |-> <<[retryCount |-> retryCount, errors |-> <<"Snyk scan failed">>]>>]

\* scanResult.metadata = {scanDuration, retryCount, errors: undefined}
withMetadata(result) ==
    [result EXCEPT !.metadata = <<[retryCount |-> retryCount]>>]

\* generateMockScanResult of utils/mock-data
MockLodash ==
    [id |-> "SNYK-JS-LODASH-590103", title |-> "Prototype Pollution",
     severity |-> "critical", packageName |-> "lodash",
     version |-> <<"4.17.15">>, fixedIn |-> << <<"4.17.21">> >>, cvssScore |-> <<98>>]

MockAxios ==
    [id |-> "SNYK-JS-AXIOS-1038255", title |-> "Server-Side Request Forgery (SSRF)",
     severity |-> "high", packageName |-> "axios",
     version |-> <<"0.21.0">>, fixedIn |-> << <<"0.21.1">> >>, cvssScore |-> <<75>>]

MockMinimist ==
    [id |-> "SNYK-JS-MINIMIST-559764", title |-> "Prototype Pollution",
     severity |-> "medium", packageName |-> "minimist",
     version |-> <<"1.2.0">>, fixedIn |-> << <<"1.2.6">> >>, cvssScore |-> <<56>>]

MockDotenv ==
    [id |-> "SNYK-JS-DOTENV-1015748", title |-> "Information Exposure",
     severity |-> "low", packageName |-> "dotenv",
     version |-> <<"8.0.0">>, fixedIn |-> << <<"8.2.0">> >>, cvssScore |-> <<31>>]

generateMockScanResult ==
    LET vulnerabilities == <<MockLodash, MockAxios, MockMinimist, MockDotenv>>
    IN  [vulnerabilities |-> vulnerabilities,
         summary |-> CountSummary(vulnerabilities),
         metadata |-> <<>>]

\* a report an earlier run left at scan-results/scan-results.json
StaleReport ==
    stringify([vulnerabilities |-> <<MockAxios>>,
               summary |-> CountSummary(<<MockAxios>>),
               metadata |-> <<>>])

\* an entry of `npm audit --json` whose range has two comparators
AuditRange ==
    [key |-> "qs", name |-> "qs", severity |-> "high",
     range |-> <<">=6.0.0", "<6.5.3">>, fixAvailable |-> TRUE, viaTitle |-> "DoS"]

\* a report an earlier run of the Watchman left there after it fell back
\* to npm audit
StaleAuditReport == stringify(parseAuditOutput([vulnerabilities |-> <<AuditRange>>]))

\* ------------------------------------------------------------------------
\* State
\* ------------------------------------------------------------------------
VARIABLES
    options,        \* WardenOptions: scanner, repository (given or not), dryRun
    pc,             \* the statement runWarden (or a callee) executes next
    stage,          \* "try": the try block of runWarden; "catch": its catch block
    cwd,            \* process.cwd(): "original" or "workspace"
    outcome,        \* "running", then how runWarden ended: "returned" / "threw"
    latestFile,     \* scan-results/scan-results.json of the working directory
    tmpFile,        \* scan-results/scan-results.json.tmp
    scanResult,     \* <<r>>: what runSecurityScan returned; <<>> before / never
    mockResult,     \* <<r>>: the mock report of the catch block; <<>> otherwise
    attempt,        \* retryWithBackoff's attempt
    save,           \* saveScanResults in progress: the result and its caller
    githubToken,    \* whether GITHUB_TOKEN is set
    diagnoses,      \* what diagnose returned to orchestrateFix
    fix,            \* applyFix's locals and what the attempt has done so far
    fixSuccess,     \* <<b>>: what applyFix returned; <<>> before
    applyFixCalls,  \* how many times applyFix was invoked in this run
    git,            \* the repository: branch, heads, index, work tree
    prCalls,        \* the branches createPullRequest was called with
    prs,            \* the pull requests the code host has opened
    scannerCalls,   \* the scanners runSecurityScan has invoked, with how each ended
    lastFailure,    \* <<f>>: the failure retryWithBackoff caught last; <<>> otherwise
    thrown,         \* <<e>>: the error runWarden caught from its scan-and-fix try
    advisoryFile,   \* SECURITY-ADVISORY.md of the working directory
    dast,           \* locals of the DAST run: target, scanner results, commands run
    fnCall,         \* a call of one normalizer or of diagnose on its own: function, input
    fnResult,       \* <<what that call returned>>, <<>> before it is made
    watchman        \* the Watchman run on its own: position, scanners run, results, exit code

runVars == <<options, stage, cwd, outcome>>
fileVars == <<latestFile, tmpFile>>
scanVars == <<scanResult, mockResult, attempt, save>>
fixVars == <<diagnoses, fix, fixSuccess, applyFixCalls>>
prVars == <<githubToken, prCalls, prs>>
detectVars == <<scannerCalls, lastFailure, thrown>>
dastVars == <<advisoryFile, dast>>
fnVars == <<fnCall, fnResult>>

vars == <<options, pc, stage, cwd, outcome, latestFile, tmpFile, scanResult,
          mockResult, attempt, save, githubToken, diagnoses, fix, fixSuccess,
          applyFixCalls, git, prCalls, prs, scannerCalls, lastFailure, thrown,
          advisoryFile, dast, fnCall, fnResult, watchman>>

NoFix ==
    [state |-> "Idle", vulnerabilityId |-> "", packageName |-> "", newVersion |-> "",
     branchName |-> "", tests |-> "not-run", wrote |-> FALSE,
     before |-> [missing |-> TRUE]]

\* the locals of a DAST run before it starts: no target chosen, no scanner
\* result (<<>> is null), no scanner command run
NoDast ==
    [target |-> <<>>, nmapEnabled |-> FALSE, metasploitEnabled |-> FALSE,
     nmapResults |-> <<>>, metasploitResults |-> <<>>, commands |-> <<>>]

\* WardenOptions of a SAST run
SastOptions ==
    [scanMode : {"sast"}, scanner : {"snyk", "npm-audit", "all"},
     repository : BOOLEAN, dryRun : BOOLEAN]

\* WardenOptions of a DAST run, which reads neither scanner nor repository
DastOptions ==
    [scanMode : {"dast"}, scanner : {"all"}, repository : {FALSE}, dryRun : BOOLEAN]

\* the trees a target repository can have committed on main
InitialTrees ==
    {Tree(m, m, FALSE) : m \in {ManifestDirect, ManifestDev, ManifestTransitive, NoManifest}}

\* the working trees a run can start from, given the commit checked out:
\* clean, package.json edited but not committed, or an untracked file
InitialWork(head) ==
    {head, [head EXCEPT !.notes = TRUE]}
    \cup (IF head.manifest = ManifestDirect
          THEN {[head EXCEPT !.manifest = ManifestEdited]} ELSE {})

\* the branch an earlier run left behind with its fix committed
EarlierFix(head) ==
    LET fixed == updateDependency(head.manifest, "lodash", "4.17.21")
    IN  Tree(fixed, fixed, head.notes)

InitialHeads(head) ==
    {[b \in {"main"} |-> head]}
    \cup (IF head.manifest = ManifestDirect
          THEN {[b \in {"main", "warden/fix-lodash"} |->
                    IF b = "main" THEN head ELSE EarlierFix(head)]}
          ELSE {})

Init ==
    /\ options \in SastOptions \cup DastOptions
    /\ pc = "rw_load"
    /\ stage = "try"
    /\ cwd = "original"
    /\ outcome = "running"
    /\ latestFile \in {Absent, Json(StaleReport), Json(StaleAuditReport)}
    /\ tmpFile = Absent
    /\ scanResult = <<>>
    /\ mockResult = <<>>
    /\ attempt = 1
    /\ save = <<>>
    /\ githubToken \in BOOLEAN
    /\ diagnoses = <<>>
    /\ fix = NoFix
    /\ fixSuccess = <<>>
    /\ applyFixCalls = 0
    /\ \E head \in InitialTrees :
         \E work \in InitialWork(head) :
           \E heads \in InitialHeads(head) :
             git = [branch |-> "main", heads |-> heads, index |-> head, work |-> work,
                    pushed |-> {}]
    /\ prCalls = <<>>
    /\ prs = <<>>
    /\ scannerCalls = <<>>
    /\ lastFailure = <<>>
    /\ thrown = <<>>
    /\ advisoryFile = Absent
    /\ dast = NoDast
    /\ fnCall = <<>>
    /\ fnResult = <<>>
    /\ watchman = <<>>


\* ------------------------------------------------------------------------
\* runWarden: configuration, workspace, exceptions
\* ------------------------------------------------------------------------
\* where an exception thrown inside the inner try block, or inside its
\* catch block, of runWarden lands
throwTarget(st) == IF st = "try" THEN "rw_catch" ELSE "rw_rethrow"

\* an error thrown by a callee of orchestrateFix
CalleeError(from) == [from |-> from, names |-> {}]

\* throw e: control goes to the enclosing catch, and the inner catch of
\* runWarden binds e to scanError
raise(e) ==
    /\ pc' = throwTarget(stage)
    /\ thrown' = IF stage = "try" THEN <<e>> ELSE thrown

\* loadRules() and loadSpecs(); a missing rules file throws
LoadConfiguration ==
    /\ pc = "rw_load"
    /\ \E ok \in BOOLEAN :
         pc' = IF ~ok THEN "rw_rethrow"
               ELSE IF options.scanMode = "dast" THEN "dast_config"
               ELSE "rw_workspace"
    /\ UNCHANGED <<runVars, fileVars, scanVars, fixVars, prVars, git, detectVars, dastVars, fnVars, watchman>>

\* if (options.repository) { prepareWorkspace; process.chdir(workspace) }
PrepareWorkspace ==
    /\ pc = "rw_workspace"
    /\ IF options.repository
       THEN \E cloned \in BOOLEAN :
              /\ pc' = IF cloned THEN "scan_select" ELSE "rw_rethrow"
              /\ cwd' = IF cloned THEN "workspace" ELSE cwd
       ELSE pc' = "scan_select" /\ cwd' = cwd
    /\ UNCHANGED <<options, stage, outcome, fileVars, scanVars, fixVars, prVars, git, detectVars, dastVars, fnVars, watchman>>

\* the outer catch of runWarden: log and rethrow
Rethrow ==
    /\ pc = "rw_rethrow"
    /\ pc' = "rw_finally"
    /\ outcome' = "threw"
    /\ UNCHANGED <<options, stage, cwd, fileVars, scanVars, fixVars, prVars, git, detectVars, dastVars, fnVars, watchman>>

\* const originalCwd = process.cwd(), taken on entry
originalCwd == "original"

\* a finally block that leaves the directory as it is
cwdAfterFinally_stays(original, current) == current

\* process.chdir(originalCwd)
cwdAfterFinally(original, current) == original

\* finally { process.chdir(originalCwd) }
Finally ==
    /\ pc = "rw_finally"
    /\ pc' = "done"
    /\ cwd' = cwdAfterFinally(originalCwd, cwd)
    /\ outcome' = IF outcome = "running" THEN "returned" ELSE outcome
    /\ UNCHANGED <<options, stage, fileVars, scanVars, fixVars, prVars, git, detectVars, dastVars, fnVars, watchman>>

\* ------------------------------------------------------------------------
\* runSecurityScan, SnykScanner.test, NpmAuditScanner.scan
\* ------------------------------------------------------------------------
\* one entry of the record of scanner invocations
ScannerCall(scanner, ending) == [scanner |-> scanner, outcome |-> ending]

\* the invocation in progress ends with the given outcome
finishCall(calls, ending) ==
    [calls EXCEPT ![Len(calls)] = ScannerCall(calls[Len(calls)].scanner, ending)]

\* a failure as retryWithBackoff's catch sees it: the operation, the
\* attempt, what happened to the process (cause), the error the callback
\* threw, and whether another attempt follows
Failure(op, attemptNo, cause, error) ==
    [op |-> op, attempt |-> attemptNo, cause |-> cause, error |-> error,
     retried |-> shouldRetry(attemptNo, error)]

\* a runSecurityScan that goes on to npm-audit whatever Snyk did
afterSnyk_alwaysAudit(ending) == "npm_audit"

\* runSecurityScan for 'snyk' and 'all': return what test() returned, or
\* fall back to npm-audit when it threw
afterSnyk(ending) == IF ending = "failed" THEN "npm_audit" ELSE "of_filter"

\* the error runSecurityScan throws when npm audit failed: the scanner's
\* own error when npm-audit was asked for, else a new Error('All scanners
\* failed. Please check your environment.'); names: the failures the
\* message carries
scanStageError(scanner) ==
    IF scanner = "npm-audit"
    THEN [from |-> "NpmAuditScanner.scan", names |-> {"npm-audit"}]
    ELSE [from |-> "runSecurityScan", names |-> {}]

\* runSecurityScan: npm-audit directly when the user asked for it, else Snyk
SelectScanner ==
    /\ pc = "scan_select"
    /\ pc' = IF options.scanner = "npm-audit" THEN "npm_audit" ELSE "snyk_version"
    /\ attempt' = 1
    /\ scannerCalls' = IF options.scanner = "npm-audit"
                       THEN scannerCalls
                       ELSE Append(scannerCalls, ScannerCall("snyk", "running"))
    /\ UNCHANGED <<runVars, fileVars, scanResult, mockResult, save, fixVars, prVars, git,
                   lastFailure, thrown, dastVars, fnVars, watchman>>

\* test(): `snyk --version` under retryWithBackoff; when it fails for good
\* test() throws without saving anything
SnykVersionCheck ==
    /\ pc = "snyk_version"
    /\ \E result \in {"ok", "killed", "network", "missing"} :
         IF result = "ok"
         THEN /\ pc' = "snyk_scan" /\ attempt' = 1
              /\ lastFailure' = <<>>
              /\ scannerCalls' = scannerCalls
         ELSE /\ lastFailure' = <<Failure("version", attempt, result, result)>>
              /\ IF shouldRetry(attempt, result)
                 THEN /\ pc' = pc /\ attempt' = attempt + 1
                      /\ scannerCalls' = scannerCalls
                 ELSE /\ pc' = afterSnyk("failed") /\ attempt' = 1
                      /\ scannerCalls' = finishCall(scannerCalls, "failed")
    /\ UNCHANGED <<runVars, fileVars, scanResult, mockResult, save, fixVars, prVars, git,
                   thrown, dastVars, fnVars, watchman>>

\* test(): `snyk test --json` under retryWithBackoff, then parseSnykOutput
\* up to its call of saveScanResults; any failure goes to the catch block,
\* which saves fallbackResult and throws
SnykScan ==
    /\ pc = "snyk_scan"
    /\ \/ \E stdout \in SnykOutputs :
            /\ attempt' = 1
            /\ lastFailure' = <<>>
            /\ pc' = "save_validate"
            /\ save' = IF stdout.json
                       THEN <<[result |-> parseSnykOutput(stdout), caller |-> "parse"]>>
                       ELSE <<[result |-> fallbackResult, caller |-> "catch"]>>
       \/ \E cause \in {"killed", "network", "exit"} :
            /\ lastFailure' = <<Failure("scan", attempt, cause, scanCallbackError(cause))>>
            /\ IF shouldRetry(attempt, scanCallbackError(cause))
               THEN pc' = pc /\ attempt' = attempt + 1 /\ save' = save
               ELSE /\ pc' = "save_validate"
                    /\ attempt' = 1
                    /\ save' = <<[result |-> fallbackResult, caller |-> "catch"]>>
    /\ UNCHANGED <<runVars, fileVars, scanResult, mockResult, fixVars, prVars, git,
                   scannerCalls, thrown, dastVars, fnVars, watchman>>

\* where saveScanResults goes when it throws: from parseSnykOutput into the
\* catch block of test() (which saves fallbackResult), from that catch block
\* out of test() into runSecurityScan's fallback
saveThrows(caller) ==
    IF caller = "parse"
    THEN [pc |-> "save_validate", save |-> <<[result |-> fallbackResult, caller |-> "catch"]>>,
          outcome |-> "running"]
    ELSE [pc |-> afterSnyk("failed"), save |-> <<>>, outcome |-> "failed"]

\* saveScanResults: validateScanResult, JSON.stringify; a result that fails
\* validation is not written (scan-error.json is) and the error is rethrown
SaveValidate ==
    /\ pc = "save_validate"
    /\ IF validateScanResult(save[1].result)
       THEN pc' = "save_history" /\ save' = save
       ELSE pc' = saveThrows(save[1].caller).pc /\ save' = saveThrows(save[1].caller).save
    /\ scannerCalls' = IF validateScanResult(save[1].result)
                       THEN scannerCalls
                       ELSE finishCall(scannerCalls, saveThrows(save[1].caller).outcome)
    /\ lastFailure' = <<>>
    /\ UNCHANGED <<runVars, fileVars, scanResult, mockResult, attempt, fixVars, prVars, git,
                   thrown, dastVars, fnVars, watchman>>

\* saveScanResults: the timestamped copy, written to a temporary file and
\* renamed; either step may throw
SaveHistory ==
    /\ pc = "save_history"
    /\ \E ok \in BOOLEAN :
         IF ok
         THEN pc' = "save_tmp" /\ save' = save
         ELSE pc' = "save_cleanup" /\ save' = save
    /\ UNCHANGED <<runVars, fileVars, scanResult, mockResult, attempt, fixVars, prVars, git, detectVars, dastVars, fnVars, watchman>>

\* saveScanResults: fs.writeFileSync(tempLatestPath, jsonContent); a write
\* that throws can leave part of the content in the temporary file
SaveWriteTemp ==
    /\ pc = "save_tmp"
    /\ \E ok \in BOOLEAN :
         IF ok
         THEN pc' = "save_rename" /\ tmpFile' = Json(stringify(save[1].result))
         ELSE pc' = "save_cleanup" /\ tmpFile' = Partial
    /\ UNCHANGED <<runVars, latestFile, scanVars, fixVars, prVars, git, detectVars, dastVars, fnVars, watchman>>

\* where saveScanResults goes when it returns: parseSnykOutput returns the
\* result and test() adds the metadata and returns it; the catch block of
\* test() throws
SaveRename ==
    /\ pc = "save_rename"
    /\ \E ok \in BOOLEAN :
         IF ok
         THEN /\ latestFile' = tmpFile
              /\ tmpFile' = Absent
              /\ save' = <<>>
              /\ IF save[1].caller = "parse"
                 THEN /\ scanResult' = <<withMetadata(save[1].result)>>
                      /\ pc' = afterSnyk("returned")
                      /\ scannerCalls' = finishCall(scannerCalls, "returned")
                 ELSE /\ scanResult' = scanResult
                      /\ pc' = afterSnyk("failed")
                      /\ scannerCalls' = finishCall(scannerCalls, "failed")
         ELSE /\ pc' = "save_cleanup"
              /\ UNCHANGED <<latestFile, tmpFile, save, scanResult, scannerCalls>>
    /\ UNCHANGED <<runVars, mockResult, attempt, fixVars, prVars, git,
                   lastFailure, thrown, dastVars, fnVars, watchman>>

\* saveScanResults, catch (writeError): unlink the temporary files, write
\* scan-error.json, rethrow
SaveCleanup ==
    /\ pc = "save_cleanup"
    /\ tmpFile' = Absent
    /\ pc' = saveThrows(save[1].caller).pc
    /\ save' = saveThrows(save[1].caller).save
    /\ scannerCalls' = finishCall(scannerCalls, saveThrows(save[1].caller).outcome)
    /\ UNCHANGED <<runVars, latestFile, scanResult, mockResult, attempt, fixVars, prVars, git,
                   lastFailure, thrown, dastVars, fnVars, watchman>>

\* NpmAuditScanner.scan and parseAuditOutput: the report is returned to
\* runSecurityScan's caller as parsed; an error (no stdout, or stdout that
\* is no JSON) is thrown, and runSecurityScan throws in turn
NpmAudit ==
    /\ pc = "npm_audit"
    /\ \/ \E stdout \in AuditOutputs :
            /\ stdout.json
            /\ scanResult' = <<parseAuditOutput(stdout)>>
            /\ pc' = "of_filter"
            /\ scannerCalls' = Append(scannerCalls, ScannerCall("npm-audit", "returned"))
            /\ thrown' = thrown
       \/ /\ scanResult' = scanResult
          /\ pc' = throwTarget(stage)
          /\ scannerCalls' = Append(scannerCalls, ScannerCall("npm-audit", "failed"))
          /\ thrown' = <<scanStageError(options.scanner)>>
    /\ lastFailure' = <<>>
    /\ UNCHANGED <<runVars, fileVars, mockResult, attempt, save, fixVars, prVars, git,
                   dastVars, fnVars, watchman>>


\* ------------------------------------------------------------------------
\* orchestrateFix and EngineerAgent.applyFix
\* ------------------------------------------------------------------------
\* the scanResult argument of the orchestrateFix call in progress
currentReport == IF stage = "try" THEN scanResult[1] ELSE mockResult[1]

\* orchestrateFix returns to runWarden, which logs and leaves the try
orchestrateReturn == "rw_finally"

\* if (highPriority.length === 0) return ("Clean Audit")
FilterHighPriority ==
    /\ pc = "of_filter"
    /\ pc' = IF Len(filterHighPriority(currentReport)) = 0
             THEN orchestrateReturn ELSE "of_diagnose"
    /\ UNCHANGED <<runVars, fileVars, scanVars, fixVars, prVars, git, detectVars, dastVars, fnVars, watchman>>

\* an orchestrateFix that does not look at options.dryRun
proceedsToFix_ignoresDryRun(ds, dryRun) == Len(ds) > 0

\* the guard in front of applyFix: orchestrateFix goes on to applyFix when
\* diagnose returned something and the run is no dry run
proceedsToFix(ds, dryRun) == Len(ds) > 0 /\ ~dryRun

\* engineer.diagnose(resultsPath) reads scan-results/scan-results.json (it
\* throws when the file is missing or does not parse), then the two early
\* returns of orchestrateFix, then the call of applyFix
Diagnose ==
    /\ pc = "of_diagnose"
    /\ IF latestFile.kind # "json"
       THEN /\ raise(CalleeError("diagnose"))
            /\ UNCHANGED <<diagnoses, applyFixCalls>>
       ELSE /\ diagnoses' = diagnose(latestFile.doc)
            /\ IF proceedsToFix(diagnoses', options.dryRun)
               THEN pc' = "af_parse" /\ applyFixCalls' = applyFixCalls + 1
               ELSE pc' = orchestrateReturn /\ applyFixCalls' = applyFixCalls
            /\ thrown' = thrown
    /\ fix' = NoFix
    /\ fixSuccess' = <<>>
    /\ UNCHANGED <<runVars, fileVars, scanVars, prVars, git, scannerCalls, lastFailure,
                   dastVars, fnVars, watchman>>

\* applyFix returns b to orchestrateFix
fixReturns(b) == /\ fixSuccess' = <<b>>
                 /\ pc' = "of_afterfix"

\* applyFix: parse the remediation sentence; no match returns false
ParseSuggestedFix ==
    /\ pc = "af_parse"
    /\ LET match == matchSuggestedFix(diagnoses[1].suggestedFix) IN
       IF match = <<>>
       THEN fixReturns(FALSE) /\ fix' = fix
       ELSE /\ fix' = [fix EXCEPT !.vulnerabilityId = diagnoses[1].vulnerabilityId,
                                  !.packageName = match[1],
                                  !.newVersion = match[2],
                                  !.branchName = fixBranchName(match[1])]
            /\ pc' = "af_checkout"
            /\ fixSuccess' = fixSuccess
    /\ UNCHANGED <<runVars, fileVars, scanVars, diagnoses, applyFixCalls, prVars, git, detectVars, dastVars, fnVars, watchman>>

\* a checkoutBranch that runs `git checkout -b` whatever exists
checkoutBranch_alwaysCreates(g, name) ==
    IF name \in DOMAIN g.heads
    THEN [ok |-> FALSE, git |-> g]
    ELSE [ok |-> TRUE,
          git |-> [g EXCEPT !.branch = name,
                            !.heads = [b \in DOMAIN g.heads \cup {name} |->
                                          IF b = name THEN g.heads[g.branch]
                                          ELSE g.heads[b]]]]

\* GitManager.checkoutBranch when git itself works: already on the branch:
\* return; the branch exists: git checkout, which git refuses when it
\* would overwrite an uncommitted change; else git checkout -b.  ok is
\* FALSE when it throws.
checkoutBranch(g, name) ==
    LET here == g.heads[g.branch] IN
    IF g.branch = name
    THEN [ok |-> TRUE, git |-> g]
    ELSE IF name \in DOMAIN g.heads
    THEN IF switchConflicts(g.work, here, g.heads[name])
         THEN [ok |-> FALSE, git |-> g]
         ELSE [ok |-> TRUE,
               git |-> [g EXCEPT !.branch = name,
                                 !.work = switchTree(g.work, here, g.heads[name]),
                                 !.index = switchTree(g.index, here, g.heads[name])]]
    ELSE [ok |-> TRUE,
          git |-> [g EXCEPT !.branch = name,
                            !.heads = [b \in DOMAIN g.heads \cup {name} |->
                                          IF b = name THEN here ELSE g.heads[b]]]]

\* applyFix step 1, this.git.checkoutBranch(branchName); any git command
\* can fail, checkoutBranch then throws and applyFix's catch returns false
CheckoutBranch ==
    /\ pc = "af_checkout"
    /\ LET result == checkoutBranch(git, fix.branchName) IN
       \/ /\ result.ok
          /\ git' = result.git
          /\ pc' = "af_patch" /\ fix' = [fix EXCEPT !.state = "BranchReady"]
          /\ fixSuccess' = fixSuccess
       \/ /\ git' = git /\ fix' = fix
          /\ fixReturns(FALSE)
    /\ UNCHANGED <<runVars, fileVars, scanVars, diagnoses, applyFixCalls, prVars, detectVars, dastVars, fnVars, watchman>>

\* applyFix steps 2-4: read package.json (missing: throw), rewrite the
\* declared version where the package is a direct dependency (else return
\* false), write the file (a write that throws leaves it as it was)
PatchManifest ==
    /\ pc = "af_patch"
    /\ LET packageJson == git.work.manifest IN
       IF "missing" \in DOMAIN packageJson
       THEN fixReturns(FALSE) /\ UNCHANGED <<git, fix>>
       ELSE IF ~isDirectDependency(packageJson, fix.packageName)
       THEN fixReturns(FALSE) /\ UNCHANGED <<git, fix>>
       ELSE \E written \in BOOLEAN :
              IF written
              THEN /\ git' = [git EXCEPT !.work.manifest =
                                 updateDependency(packageJson, fix.packageName, fix.newVersion)]
                   /\ fix' = [fix EXCEPT !.state = "Patched", !.wrote = TRUE,
                                         !.before = packageJson]
                   /\ pc' = "af_install"
                   /\ fixSuccess' = fixSuccess
              ELSE fixReturns(FALSE) /\ UNCHANGED <<git, fix>>
    /\ UNCHANGED <<runVars, fileVars, scanVars, diagnoses, applyFixCalls, prVars, detectVars, dastVars, fnVars, watchman>>

\* applyFix step 5: npm install regenerates the lock artifact; when it
\* fails runCommand throws and the outer catch returns false
NpmInstall ==
    /\ pc = "af_install"
    /\ \E ok \in BOOLEAN :
         IF ok
         THEN /\ git' = [git EXCEPT !.work.lock = git.work.manifest]
              /\ fix' = [fix EXCEPT !.state = "Verifying"]
              /\ pc' = "af_test"
              /\ fixSuccess' = fixSuccess
         ELSE fixReturns(FALSE) /\ UNCHANGED <<git, fix>>
    /\ UNCHANGED <<runVars, fileVars, scanVars, diagnoses, applyFixCalls, prVars, detectVars, dastVars, fnVars, watchman>>

\* an applyFix that commits whatever the tests said
afterTest_ignoresResult(result) == "af_stage"

\* what applyFix does after `npm test`: go on to commit when it passed,
\* revert when runCommand threw
afterTest(result) == IF result = "passed" THEN "af_stage" ELSE "af_revert"

\* applyFix step 6: npm test
NpmTest ==
    /\ pc = "af_test"
    /\ \E result \in {"passed", "failed"} :
         /\ fix' = [fix EXCEPT !.tests = result]
         /\ pc' = afterTest(result)
    /\ UNCHANGED <<runVars, fileVars, scanVars, diagnoses, fixSuccess, applyFixCalls,
                   prVars, git, detectVars, dastVars, fnVars, watchman>>

\* a revert that restores the lock artifact and leaves package.json alone
checkoutDot_keepsManifest(index, work) ==
    [manifest |-> work.manifest, lock |-> index.lock, notes |-> work.notes]

\* git checkout . : every tracked path of the work tree is restored from
\* the index; untracked files stay
checkoutDot(index, work) ==
    [manifest |-> index.manifest, lock |-> index.lock, notes |-> work.notes]

\* git clean -fd: files the index does not know are removed
cleanUntracked(index, work) == [work EXCEPT !.notes = index.notes]

\* revertChanges, first command: git checkout .; a failure throws out of
\* the inner catch into the outer one, which returns false
RevertCheckout ==
    /\ pc = "af_revert"
    /\ \E ok \in BOOLEAN :
         IF ok
         THEN /\ git' = [git EXCEPT !.work = checkoutDot(git.index, git.work)]
              /\ pc' = "af_clean"
              /\ UNCHANGED <<fix, fixSuccess>>
         ELSE fixReturns(FALSE) /\ UNCHANGED <<git, fix>>
    /\ UNCHANGED <<runVars, fileVars, scanVars, diagnoses, applyFixCalls, prVars, detectVars, dastVars, fnVars, watchman>>

\* revertChanges, second command: git clean -fd removes the untracked
\* files; then applyFix returns false
RevertClean ==
    /\ pc = "af_clean"
    /\ \E ok \in BOOLEAN :
         IF ok
         THEN /\ git' = [git EXCEPT !.work = cleanUntracked(git.index, git.work)]
              /\ fix' = [fix EXCEPT !.state = "RolledBack"]
         ELSE UNCHANGED <<git, fix>>
    /\ fixReturns(FALSE)
    /\ UNCHANGED <<runVars, fileVars, scanVars, diagnoses, applyFixCalls, prVars, detectVars, dastVars, fnVars, watchman>>

\* applyFix step 7, stageAll: git add .
StageAll ==
    /\ pc = "af_stage"
    /\ \E ok \in BOOLEAN :
         IF ok
         THEN /\ git' = [git EXCEPT !.index = git.work]
              /\ pc' = "af_commit"
              /\ fixSuccess' = fixSuccess
         ELSE fixReturns(FALSE) /\ git' = git
    /\ UNCHANGED <<runVars, fileVars, scanVars, diagnoses, fix, applyFixCalls, prVars, detectVars, dastVars, fnVars, watchman>>

\* applyFix step 7, commit: git commit -m ...; git exits non-zero when
\* nothing is staged against HEAD, or when it fails otherwise
Commit ==
    /\ pc = "af_commit"
    /\ \/ /\ git.index # git.heads[git.branch]
          /\ git' = [git EXCEPT !.heads[git.branch] = git.index]
          /\ fix' = [fix EXCEPT !.state = "Committed"]
          /\ fixReturns(TRUE)
       \/ /\ UNCHANGED <<git, fix>>
          /\ fixReturns(FALSE)
    /\ UNCHANGED <<runVars, fileVars, scanVars, diagnoses, applyFixCalls, prVars, detectVars, dastVars, fnVars, watchman>>

\* an orchestrateFix without the `if (!fixSuccess) return`
opensPullRequest_always(success) == TRUE

\* the guard in front of the Diplomat: if (!fixSuccess) return
opensPullRequest(success) == success

\* orchestrateFix after applyFix: abort, or go on to createPullRequest with
\* the branch name rebuilt from the description
AfterFix ==
    /\ pc = "of_afterfix"
    /\ IF opensPullRequest(fixSuccess[1])
       THEN /\ pc' = "pr_call"
            /\ prCalls' = Append(prCalls,
                   fixBranchName(descriptionPackage(diagnoses[1].description)))
       ELSE /\ pc' = orchestrateReturn
            /\ prCalls' = prCalls
    /\ UNCHANGED <<runVars, fileVars, scanVars, fixVars, githubToken, prs, git, detectVars, dastVars, fnVars, watchman>>


\* ------------------------------------------------------------------------
\* DiplomatAgent.createPullRequest
\* ------------------------------------------------------------------------
\* createPullRequest: without GITHUB_TOKEN there is no client and it throws
CreatePullRequest ==
    /\ pc = "pr_call"
    /\ IF githubToken
       THEN pc' = "pr_create" /\ thrown' = thrown
       ELSE raise(CalleeError("createPullRequest"))
    /\ UNCHANGED <<runVars, fileVars, scanVars, fixVars, prVars, git, scannerCalls,
                   lastFailure, dastVars, fnVars, watchman>>

\* octokit.pulls.create({head: config.branch, base: 'main'}): the pull
\* request is opened, or the request fails (422, 401, 404, ...) and the
\* error is rethrown
PullsCreate ==
    /\ pc = "pr_create"
    /\ \/ /\ prs' = Append(prs, [head |-> prCalls[Len(prCalls)], base |-> "main",
                                 labels |-> {}, assignees |-> {}])
          /\ pc' = "pr_labels"
          /\ thrown' = thrown
       \/ /\ prs' = prs
          /\ raise(CalleeError("createPullRequest"))
    /\ UNCHANGED <<runVars, fileVars, scanVars, fixVars, githubToken, prCalls, git,
                   scannerCalls, lastFailure, dastVars, fnVars, watchman>>

\* the labels createPullRequest asks for: its two own, and config.labels
\* (only the advisory request passes any)
prLabels(st) ==
    {"security", "automated"}
    \cup (IF st = "dast" THEN {"dast", "infrastructure", "requires-action"} ELSE {})

addLabelsCatch_rethrows(st) == throwTarget(st)

\* the catch of addLabels: console.warn, "Don't throw - labels are
\* nice-to-have"; createPullRequest goes on to addAssignees
addLabelsCatch(st) == "pr_assign"

\* addLabels: a failure is logged, not thrown
AddLabels ==
    /\ pc = "pr_labels"
    /\ \E ok \in BOOLEAN :
         /\ prs' = IF ok
                   THEN [prs EXCEPT ![Len(prs)].labels = prLabels(stage)]
                   ELSE prs
         /\ pc' = IF ok THEN "pr_assign" ELSE addLabelsCatch(stage)
    /\ UNCHANGED <<runVars, fileVars, scanVars, fixVars, githubToken, prCalls, git, detectVars, dastVars, fnVars, watchman>>

\* addAssignees: a failure is logged, not thrown; createPullRequest returns
\* the URL and orchestrateFix returns
AddAssignees ==
    /\ pc = "pr_assign"
    /\ \E ok \in BOOLEAN :
         prs' = IF ok
                THEN [prs EXCEPT ![Len(prs)].assignees = {"owner"}]
                ELSE prs
    /\ pc' = orchestrateReturn
    /\ UNCHANGED <<runVars, fileVars, scanVars, fixVars, githubToken, prCalls, git, detectVars, dastVars, fnVars, watchman>>

\* ------------------------------------------------------------------------
\* DAST mode: runDastWorkflow and orchestrateDastRemediation
\* ------------------------------------------------------------------------
\* open ports nmap can report
NmapMysql == [portid |-> 3306, service |-> "mysql"]
NmapHttp == [portid |-> 8080, service |-> "http"]
NmapOther == [portid |-> 9999, service |-> "unknown"]
NmapPortPool == {NmapMysql, NmapHttp, NmapOther}

criticalPorts == {1433, 3306, 5432, 5984, 6379, 27017, 27018, 9200, 9300}
criticalServices == {"mysql", "postgresql", "mongodb", "redis", "couchdb", "elasticsearch"}
highRiskPorts == {21, 23, 25, 69, 111, 161, 512, 513, 514}
highRiskServices == {"telnet", "ftp", "tftp", "rexec", "rlogin", "rsh", "snmp"}
mediumPorts == {80, 443, 8080, 8443, 3000, 5000}

\* NmapScanner.determineSeverity
determineSeverity(port, service) ==
    IF port \in criticalPorts \/ service \in criticalServices THEN "critical"
    ELSE IF port \in highRiskPorts \/ service \in highRiskServices THEN "high"
    ELSE IF port \in mediumPorts THEN "medium"
    ELSE "low"

\* NmapScanner.parseNmapXML: the finding pushed for one open port
nmapFinding(port) ==
    [id |-> <<"nmap", port.portid>>,
     title |-> "Open TCP port",
     severity |-> determineSeverity(port.portid, port.service),
     packageName |-> port.service,
     version |-> <<"unknown">>,
     fixedIn |-> <<>>,
     targetPort |-> port.portid,
     service |-> port.service,
     exploitAvailable |-> FALSE]

\* NmapScanner.calculateSummary
calculateSummary(vulnerabilities) == CountSummary(vulnerabilities)

\* the ScanResult NmapScanner.scan returns for a list of open ports
nmapScan(ports) ==
    LET vulnerabilities == [i \in 1..Len(ports) |-> nmapFinding(ports[i])]
    IN  [vulnerabilities |-> vulnerabilities,
         summary |-> calculateSummary(vulnerabilities)]

\* a finding the exploit-validation scanner can return
MsfMysql ==
    [id |-> <<"msf", 3306>>, title |-> "MySQL login", severity |-> "critical",
     packageName |-> "mysql", version |-> <<"unknown">>, fixedIn |-> <<>>,
     targetPort |-> 3306, service |-> "mysql", exploitAvailable |-> TRUE]

MsfResults == {<<>>, <<MsfMysql>>}

mergeDastResults_deduplicates(nmapResults, metasploitResults) ==
    LET fromNmap == IF nmapResults = <<>> THEN <<>> ELSE nmapResults[1].vulnerabilities
        fromMsf == IF metasploitResults = <<>> THEN <<>>
                   ELSE metasploitResults[1].vulnerabilities
        ports == {fromNmap[i].targetPort : i \in 1..Len(fromNmap)}
        vulnerabilities == fromNmap \o SelectSeq(fromMsf, LAMBDA v : v.targetPort \notin ports)
    IN  [vulnerabilities |-> vulnerabilities,
         summary |-> CountSummary(vulnerabilities),
         scanMode |-> "dast",
         metadata |-> <<[nmapEnabled |-> nmapResults # <<>>,
                         metasploitEnabled |-> metasploitResults # <<>>]>>]

\* runDastWorkflow, "Merge results": the findings of both scanners, the
\* summary counted from the merged list
mergeDastResults(nmapResults, metasploitResults) ==
    LET vulnerabilities ==
            (IF nmapResults = <<>> THEN <<>> ELSE nmapResults[1].vulnerabilities)
            \o (IF metasploitResults = <<>> THEN <<>> ELSE metasploitResults[1].vulnerabilities)
    IN  [vulnerabilities |-> vulnerabilities,
         summary |-> CountSummary(vulnerabilities),
         scanMode |-> "dast",
         metadata |-> <<[nmapEnabled |-> nmapResults # <<>>,
                         metasploitEnabled |-> metasploitResults # <<>>]>>]

\* generateDastAdvisory: the advisory document of a report
generateDastAdvisory(result) ==
    [kind |-> "advisory", total |-> result.summary.total,
     findings |-> [i \in 1..Len(result.vulnerabilities) |-> result.vulnerabilities[i].id]]

\* the branch the advisory request names; Date.now() is one instant here
dastBranchName == "warden/dast-advisory-now"

\* runWarden in DAST mode up to the call of runDastWorkflow: DAST disabled,
\* the named target unknown, or no authorized target: log and return; else
\* the target (a named target need not be authorized) and the scanners the
\* configuration enables
DastConfigure ==
    /\ pc = "dast_config"
    /\ stage' = "dast"
    /\ \/ pc' = "rw_finally" /\ dast' = dast
       \/ \E authorized \in BOOLEAN, nmapOn \in BOOLEAN, msfOn \in BOOLEAN :
            /\ dast' = [dast EXCEPT !.target = <<[authorized |-> authorized]>>,
                                    !.nmapEnabled = nmapOn,
                                    !.metasploitEnabled = msfOn]
            /\ pc' = "dast_nmap"
    /\ UNCHANGED <<options, cwd, outcome, fileVars, scanVars, fixVars, prVars, git,
                   detectVars, advisoryFile, fnVars, watchman>>

nmapRefuses_never(target) == FALSE

\* NmapScanner.scan, "Check authorization": throws before any command for a
\* target that is not authorized
nmapRefuses(target) == ~target.authorized

\* MetasploitScanner.scan is handed the target and the safety settings
\* (authorizedTargetsOnly); the documentation of the scanners has it scan
\* only a target with authorized: true
metasploitRefuses(target) == ~target.authorized

\* runDastWorkflow, "Run Nmap scan": NmapScanner.scan refuses a target that
\* is not authorized, and throws when nmap is missing or fails; the error
\* is rethrown
DastNmap ==
    /\ pc = "dast_nmap"
    /\ IF ~dast.nmapEnabled
       THEN pc' = "dast_msf" /\ dast' = dast
       ELSE IF nmapRefuses(dast.target[1])
       THEN pc' = throwTarget(stage) /\ dast' = dast
       ELSE \/ \E ports \in SeqUpTo(NmapPortPool, MaxFindings) :
                 /\ dast' = [dast EXCEPT !.nmapResults = <<nmapScan(ports)>>,
                                         !.commands = Append(@, "nmap")]
                 /\ pc' = "dast_msf"
            \/ /\ dast' = [dast EXCEPT !.commands = Append(@, "nmap")]
               /\ pc' = throwTarget(stage)
            \/ pc' = throwTarget(stage) /\ dast' = dast
    /\ UNCHANGED <<runVars, fileVars, scanVars, fixVars, prVars, git, detectVars,
                   advisoryFile, fnVars, watchman>>

\* runDastWorkflow, "Run Metasploit scan": a failure is reported on the
\* spinner and not rethrown
DastMetasploit ==
    /\ pc = "dast_msf"
    /\ IF ~dast.metasploitEnabled \/ metasploitRefuses(dast.target[1])
       THEN dast' = dast
       ELSE \/ \E found \in MsfResults :
                 dast' = [dast EXCEPT
                            !.metasploitResults =
                                <<[vulnerabilities |-> found,
                                   summary |-> CountSummary(found)]>>,
                            !.commands = Append(@, "msfconsole")]
            \/ dast' = dast
    /\ pc' = "dast_merge"
    /\ UNCHANGED <<runVars, fileVars, scanVars, fixVars, prVars, git, detectVars,
                   advisoryFile, fnVars, watchman>>

\* runDastWorkflow, "Merge results", and the return into runWarden
DastMerge ==
    /\ pc = "dast_merge"
    /\ scanResult' = <<mergeDastResults(dast.nmapResults, dast.metasploitResults)>>
    /\ dast' = [dast EXCEPT !.nmapResults = <<>>, !.metasploitResults = <<>>]
    /\ pc' = "dast_remediate"
    /\ UNCHANGED <<runVars, fileVars, mockResult, attempt, save, fixVars, prVars, git,
                   detectVars, advisoryFile, fnVars, watchman>>

\* the guard in front of the advisory: orchestrateDastRemediation goes on
\* to write it when there are findings and the run is no dry run
writesAdvisory(total, dryRun) == total # 0 /\ ~dryRun

\* orchestrateDastRemediation: nothing found: return; dry run: log the
\* advisory and return; else fs.writeFileSync(SECURITY-ADVISORY.md) and the
\* call of createPullRequest on the advisory branch
DastRemediate ==
    /\ pc = "dast_remediate"
    /\ IF ~writesAdvisory(scanResult[1].summary.total, options.dryRun)
       THEN /\ pc' = orchestrateReturn
            /\ UNCHANGED <<advisoryFile, prCalls>>
       ELSE \/ /\ advisoryFile' = Json(generateDastAdvisory(scanResult[1]))
               /\ prCalls' = Append(prCalls, dastBranchName)
               /\ pc' = "pr_call"
            \/ /\ advisoryFile' = Partial
               /\ prCalls' = prCalls
               /\ pc' = throwTarget(stage)
    /\ UNCHANGED <<runVars, fileVars, scanVars, fixVars, githubToken, prs, git,
                   detectVars, dast, fnVars, watchman>>

\* ------------------------------------------------------------------------
\* runWarden: the catch block of the scan-and-fix try
\* ------------------------------------------------------------------------
\* the test of the catch block: demo mode for a local target, else rethrow
fallsBackToMock(opts) == ~opts.repository

\* catch (scanError): for a local target generate the mock report and start
\* writing it over scan-results/scan-results.json with fs.writeFileSync,
\* which truncates the file before it writes
CatchScanError ==
    /\ pc = "rw_catch"
    /\ stage' = "catch"
    /\ IF fallsBackToMock(options)
       THEN /\ mockResult' = <<generateMockScanResult>>
            /\ thrown' = <<>>
            /\ \/ pc' = "mock_write" /\ latestFile' = Partial
               \/ pc' = throwTarget("catch") /\ latestFile' = latestFile
       ELSE /\ pc' = throwTarget("catch")
            /\ UNCHANGED <<mockResult, latestFile, thrown>>
    /\ UNCHANGED <<options, cwd, outcome, tmpFile, scanResult, attempt, save,
                   fixVars, prVars, git, scannerCalls, lastFailure, dastVars, fnVars, watchman>>

\* fs.writeFileSync completes, or throws with the file partly written; then
\* printSummary and orchestrateFix(scanResult, options) on the mock report
MockWrite ==
    /\ pc = "mock_write"
    /\ \/ /\ latestFile' = Json(stringify(mockResult[1]))
          /\ pc' = "of_filter"
       \/ /\ latestFile' = latestFile
          /\ pc' = throwTarget(stage)
    /\ UNCHANGED <<runVars, tmpFile, scanVars, fixVars, prVars, git, detectVars, dastVars, fnVars, watchman>>

\* the statements of a run that wait for an external command or request,
\* each with the timeout the code gives the call in seconds, <<>> where it
\* gives none: execSync of git clone or pull, the two snyk commands, npm
\* audit, the git commands of GitManager.exec, the npm commands of
\* runCommand, the Octokit requests, writing nothing down for nmap
callTimeout ==
    [rw_workspace |-> <<>>,
     snyk_version |-> <<10>>,
     snyk_scan |-> <<300>>,
     npm_audit |-> <<>>,
     af_checkout |-> <<>>,
     af_install |-> <<>>,
     af_test |-> <<>>,
     af_revert |-> <<>>,
     af_clean |-> <<>>,
     af_stage |-> <<>>,
     af_commit |-> <<>>,
     pr_create |-> <<>>,
     pr_labels |-> <<>>,
     pr_assign |-> <<>>,
     dast_nmap |-> <<>>]

\* the statement at pc waits for an external call
atExternalCall ==
    /\ pc \in DOMAIN callTimeout
    /\ pc = "rw_workspace" => options.repository
    /\ pc = "dast_nmap" => (dast.nmapEnabled /\ dast.target[1].authorized)

\* the command or request never returns on its own: a call with a timeout
\* is killed and fails like any other failure of the call; a call without
\* one keeps the run waiting for ever (npm audit has been invoked by
\* then)
CallNeverReturns ==
    /\ atExternalCall
    /\ callTimeout[pc] = <<>>
    /\ pc' = "blocked"
    /\ scannerCalls' = IF pc = "npm_audit"
                       THEN Append(scannerCalls, ScannerCall("npm-audit", "running"))
                       ELSE scannerCalls
    /\ UNCHANGED <<runVars, fileVars, scanVars, fixVars, prVars, git, lastFailure, thrown,
                   dastVars, fnVars, watchman>>

Next ==
    \/ LoadConfiguration
    \/ PrepareWorkspace
    \/ SelectScanner
    \/ SnykVersionCheck
    \/ SnykScan
    \/ SaveValidate
    \/ SaveHistory
    \/ SaveWriteTemp
    \/ SaveRename
    \/ SaveCleanup
    \/ NpmAudit
    \/ FilterHighPriority
    \/ Diagnose
    \/ ParseSuggestedFix
    \/ CheckoutBranch
    \/ PatchManifest
    \/ NpmInstall
    \/ NpmTest
    \/ RevertCheckout
    \/ RevertClean
    \/ StageAll
    \/ Commit
    \/ AfterFix
    \/ CreatePullRequest
    \/ PullsCreate
    \/ AddLabels
    \/ AddAssignees
    \/ CatchScanError
    \/ MockWrite
    \/ DastConfigure
    \/ DastNmap
    \/ DastMetasploit
    \/ DastMerge
    \/ DastRemediate
    \/ Rethrow
    \/ Finally
    \/ CallNeverReturns

Spec == Init /\ [][Next]_vars

\* ------------------------------------------------------------------------
\* The normalizers and the prioritizer on their own: one call of one of
\* them on one input
\* ------------------------------------------------------------------------
\* a summary as JavaScript holds it: <<n>> a number, <<>> undefined
Counters(summary) == [k \in DOMAIN summary |-> <<summary[k]>>]

\* metadata.vulnerabilities of `npm audit --json` (npm 7 and later): the
\* entries counted under npm's own severity words, and their total
npmMetadata(entries) ==
    [info |-> CountSeverity(entries, "info"),
     low |-> CountSeverity(entries, "low"),
     moderate |-> CountSeverity(entries, "moderate"),
     high |-> CountSeverity(entries, "high"),
     critical |-> CountSeverity(entries, "critical"),
     total |-> Len(entries)]

\* the parsed outputs of `npm audit --json`, with and without metadata
AuditOutputsWithMetadata ==
    {[vulnerabilities |-> vs, metadata |-> md] :
        vs \in SeqUpTo(AuditRawPool, MaxFindings), md \in {<<>>, <<"npm">>}}

\* agents/watchman/npm-audit.ts, parseAuditOutput: the finding pushed for
\* one entry; the severity is npm's word in lower case
legacyVulnerability(vuln) ==
    [id |-> "NPM-" \o vuln.key \o "-audit",
     title |-> Get(vuln, "viaTitle"),
     severity |-> toLowerCase(OrElse(Get(vuln, "severity"), "low")),
     packageName |-> Get(vuln, "name"),
     version |-> IF "range" \in DOMAIN vuln THEN vuln.range ELSE <<"unknown">>,
     fixedIn |-> IF vuln.fixAvailable THEN << <<"npm", "audit", "fix">> >> ELSE <<>>,
     cvssScore |-> <<>>]

\* agents/watchman/npm-audit.ts, parseAuditOutput: the summary is counted
\* while the findings are pushed (summary[severity]++ only for a severity
\* that is a key of summary), then overwritten from metadata.vulnerabilities
\* when the output has it
legacyParseAuditOutput(data) ==
    LET vulnerabilities == [i \in 1..Len(data.vulnerabilities) |->
                               legacyVulnerability(data.vulnerabilities[i])]
        counted == Counters(CountSummary(vulnerabilities))
        metadata == npmMetadata(data.vulnerabilities)
    IN  [vulnerabilities |-> vulnerabilities,
         summary |-> IF data.metadata = <<>>
                     THEN counted
                     ELSE [k \in DOMAIN counted |->
                              IF k \in DOMAIN metadata THEN <<metadata[k]>> ELSE <<>>]]

\* a finding `snyk test` can report: a second one of tier high, without a
\* CVSS score
SnykExpressNoScore ==
    [id |-> "SNYK-JS-EXPRESS-1", title |-> "Open Redirect",
     severity |-> "high", packageName |-> "express",
     version |-> <<"4.17.0">>, fixedIn |-> << <<"4.19.2">> >>]

\* findings as scan-results.json holds them after a Snyk scan that passed
\* validation
StoredFindings ==
    {stringifyVuln(parseSnykVuln(v)) :
        v \in {w \in SnykRawPool \cup {SnykExpressNoScore} :
                  parseSnykVuln(w).severity \in validSeverities}}

\* the documents diagnose can read
StoredReports ==
    {[vulnerabilities |-> vs, summary |-> CountSummary(vs)] :
        vs \in SeqUpTo(StoredFindings, MaxFindings)}

\* ------------------------------------------------------------------------
\* Remediation guidance for a DAST finding: generateRemediationSteps of the
\* orchestrator and EngineerAgent.generateDastRemediation.  A guidance is
\* the list of the lines the function joins with "\n".
\* ------------------------------------------------------------------------
\* ports and service names a finding can carry; a finding has targetPort
\* and service as <<x>>, or <<>> when it has none
GuidancePorts == {21, 3306, 8080, 9300, 9999}
GuidanceServices == {"ssh", "OpenSSH", "mysql", "postgresql", "http", "unknown"}

\* String.prototype.includes on the lower-cased service names above
includes(service, word) ==
    service \in (CASE word = "ssh" -> {"ssh", "openssh"}
                   [] word = "mysql" -> {"mysql"}
                   [] word = "postgres" -> {"postgresql"})

\* if (x): a value is there and is not 0
truthy(boxed) == boxed # <<>> /\ boxed[1] # 0

\* the findings guidance is generated for
GuidanceFindings ==
    {[targetPort |-> port, service |-> service,
      exploitAvailable |-> exploit[1], exploitModule |-> exploit[2]] :
        port \in {<<>>} \cup {<<x>> : x \in GuidancePorts},
        service \in {<<>>} \cup {<<x>> : x \in GuidanceServices},
        exploit \in {<<FALSE, <<>> >>, <<TRUE, <<>> >>,
                     <<TRUE, <<"auxiliary/scanner/mysql/mysql_login">> >>}}

\* the fallback of generateRemediationSteps
GenericRecommendation ==
    <<"Review service configuration and apply security best practices.">>

\* generateRemediationSteps(vuln): the steps for the port, then the steps
\* for the service; the generic recommendation when there is no step
generateRemediationSteps(vuln) ==
    LET port == vuln.targetPort[1]
        service == toLowerCase(vuln.service[1])
        portSteps ==
            IF ~truthy(vuln.targetPort) THEN <<>>
            ELSE (IF port \in {3306, 5432, 27017, 6379, 9200}
                  THEN <<"- Ensure database is not exposed to the public internet",
                         "- Use firewall rules to restrict access to trusted IPs only",
                         "- Enable authentication and use strong passwords",
                         "- Consider using VPN or SSH tunneling for remote access">>
                  ELSE <<>>)
                 \o (IF port \in {21, 23}
                     THEN <<"- **CRITICAL**: Disable this insecure protocol immediately",
                            "- Replace with secure alternative (SSH for telnet, SFTP/FTPS for FTP)",
                            "- If absolutely necessary, restrict to internal network only">>
                     ELSE <<>>)
                 \o (IF port \in {80, 443, 8080, 8443}
                     THEN <<"- Ensure HTTPS is enabled with valid TLS certificate",
                            "- Configure security headers (HSTS, CSP, X-Frame-Options)",
                            "- Keep web server software up to date",
                            "- Review application-level security (authentication, authorization, input validation)">>
                     ELSE <<>>)
        serviceSteps ==
            IF vuln.service = <<>> THEN <<>>
            ELSE (IF includes(service, "ssh")
                  THEN <<"- Disable password authentication, use SSH keys only",
                         "- Change default SSH port if exposed to internet",
                         "- Implement fail2ban or similar brute-force protection">>
                  ELSE <<>>)
                 \o (IF includes(service, "mysql") \/ includes(service, "postgres")
                     THEN <<"- Update to latest patch version",
                            "- Review user permissions and remove unnecessary privileges",
                            "- Enable SSL/TLS for database connections">>
                     ELSE <<>>)
        steps == portSteps \o serviceSteps
    IN  IF Len(steps) > 0 THEN steps ELSE GenericRecommendation

\* the "Default remediation" of generateDastRemediation
DefaultRemediation ==
    <<"1. Review if this port needs to be exposed",
      "2. Implement network segmentation",
      "3. Use firewall rules to restrict access",
      "4. Update service to latest version">>

\* EngineerAgent.generateDastRemediation(_vuln, dastVuln): the heading, the
\* steps for the port when the finding has one, the SSH steps, the exploit
\* warning
generateDastRemediation(dastVuln) ==
    LET port == dastVuln.targetPort[1]
        portSteps ==
            IF ~truthy(dastVuln.targetPort) THEN <<>>
            ELSE IF port \in {3306, 5432, 27017, 6379, 9200, 9300}
            THEN <<"1. Verify database exposure is intentional",
                   "2. Implement firewall rules to restrict access to trusted IPs",
                   "3. Enable authentication with strong passwords",
                   "4. Use VPN or SSH tunneling for remote access",
                   "5. Update to latest patch version">>
            ELSE IF port \in {21, 23}
            THEN <<"**CRITICAL: Disable this insecure protocol immediately**",
                   "1. Stop the service",
                   "2. Replace with secure alternative (SSH/SFTP)",
                   "3. If required, restrict to internal network only">>
            ELSE IF port \in {80, 443, 8080, 8443}
            THEN <<"1. Ensure HTTPS is enabled with valid TLS certificate",
                   "2. Configure security headers (HSTS, CSP, X-Frame-Options)",
                   "3. Keep web server software up to date",
                   "4. Review application security controls">>
            ELSE DefaultRemediation
        serviceSteps ==
            IF dastVuln.service # <<>> /\ includes(toLowerCase(dastVuln.service[1]), "ssh")
            THEN <<"", "**SSH Hardening:**",
                   "- Disable password authentication",
                   "- Use SSH keys only",
                   "- Implement fail2ban for brute-force protection">>
            ELSE <<>>
        exploitSteps ==
            IF ~dastVuln.exploitAvailable THEN <<>>
            ELSE <<"", "EXPLOIT AVAILABLE - Prioritize remediation">>
                 \o (IF dastVuln.exploitModule # <<>>
                     THEN << <<"Module: ", dastVuln.exploitModule[1]>> >>
                     ELSE <<>>)
    IN  <<"**Manual Remediation Required**", "">>
        \o portSteps \o serviceSteps \o exploitSteps

\* orchestrateFix(scanResult, options) up to `const topIssue = diagnoses[0]`,
\* result being its scanResult and doc what scan-results/scan-results.json
\* holds: nothing is selected
\* when filterHighPriority leaves nothing or diagnose returns nothing, else
\* the first diagnosis.  Of options only maxFixes is read, for a log line.
selectTopIssue(result, doc, opts) ==
    IF Len(filterHighPriority(result)) = 0 THEN <<>>
    ELSE LET ds == diagnose(doc)
         IN  IF Len(ds) = 0 THEN <<>> ELSE <<ds[1]>>

\* the options the scan command hands to runWarden: --severity as
\* minSeverity, --max-fixes as maxFixes
FixOptions ==
    [minSeverity : {"low", "medium", "high", "critical"}, maxFixes : {1}, dryRun : {FALSE}]

\* ------------------------------------------------------------------------
\* SnykScanner.test as a function of what its commands do on each attempt
\* ------------------------------------------------------------------------
\* SnykScanner's default retryDelayMs
retryDelayMs == 2000

\* const delay = this.retryDelayMs * Math.pow(2, attempt - 1)
backoffDelay(attemptNo) == retryDelayMs * 2^(attemptNo - 1)

\* retryWithBackoff(fn, operationName, attempt) where the command of fn ends
\* as causes[attempt] on that attempt ("ok": fn returns): whether fn
\* returned in the end, the attempts made and the delays waited in between.
\* The callback of the scan turns a timeout into a new Error
\* (scanCallbackError); the one of the version check throws what exec threw.
RECURSIVE retryWithBackoff(_, _, _)
retryWithBackoff(causes, operationName, attemptNo) ==
    LET cause == causes[attemptNo]
        error == IF operationName = "scan" THEN scanCallbackError(cause) ELSE cause
    IN  IF cause = "ok"
        THEN [ok |-> TRUE, attempts |-> attemptNo, delays |-> <<>>]
        ELSE IF shouldRetry(attemptNo, error)
        THEN LET later == retryWithBackoff(causes, operationName, attemptNo + 1)
             IN  [later EXCEPT !.delays = <<backoffDelay(attemptNo)>> \o @]
        ELSE [ok |-> FALSE, attempts |-> attemptNo, delays |-> <<>>]

\* test() when `snyk --version` ends as versionCauses[i] on its i-th attempt
\* and `snyk test --json` as scanCauses[i], printing stdout when it ends ok,
\* and the files can be written: what test() does in the end ("returned"
\* with the report, or "threw"), what it saved as the latest result, and
\* the delays it waited
test(versionCauses, scanCauses, stdout) ==
    LET check == retryWithBackoff(versionCauses, "version", 1)
        scan == retryWithBackoff(scanCauses, "scan", 1)
    IN  IF ~check.ok
        THEN [ending |-> "threw", report |-> <<>>, saved |-> <<>>,
              delays |-> check.delays, scanAttempts |-> 0]
        ELSE IF scan.ok /\ validateScanResult(parseSnykOutput(stdout))
        THEN [ending |-> "returned",
              report |-> <<withMetadata(parseSnykOutput(stdout))>>,
              saved |-> <<parseSnykOutput(stdout)>>,
              delays |-> check.delays \o scan.delays, scanAttempts |-> scan.attempts]
        ELSE [ending |-> "threw", report |-> <<>>, saved |-> <<fallbackResult>>,
              delays |-> check.delays \o scan.delays, scanAttempts |-> scan.attempts]

\* ------------------------------------------------------------------------
\* DiplomatAgent.processAllSentinelBranches (processAllWardenBranches in the
\* integration example is the same loop)
\* ------------------------------------------------------------------------
\* the branches `git branch --list "sentinel/*"` can list
SentinelBranches == {"sentinel/fix-lodash", "sentinel/fix-axios", "sentinel/fix-qs"}

skipsPullRequest_never(pushed, octokit) == FALSE

\* if (!pushed && this.octokit) continue
skipsPullRequest(pushed, octokit) == ~pushed /\ octokit

\* one turn of the loop for a branch: pushBranch once (pushed: whether git
\* push succeeded), then unless skipped createPullRequest, which throws
\* without a client and when the request fails (created: whether it
\* succeeds); the catch of the loop logs the error.  What the turn adds to
\* the pushes attempted, the pull requests opened and prUrls.
processBranch(branch, octokit, pushed, created) ==
    LET opened == ~skipsPullRequest(pushed, octokit) /\ octokit /\ created
    IN  [pushes |-> <<branch>>,
         prs |-> IF opened THEN <<branch>> ELSE <<>>,
         prUrls |-> IF opened THEN <<branch>> ELSE <<>>]

\* for (const branch of branches) from index i on; pushed and created say
\* for each branch how its git push and its request end
RECURSIVE processFrom(_, _, _, _, _)
processFrom(branches, i, octokit, pushed, created) ==
    IF i > Len(branches)
    THEN [pushes |-> <<>>, prs |-> <<>>, prUrls |-> <<>>]
    ELSE LET turn == processBranch(branches[i], octokit, pushed[branches[i]],
                                   created[branches[i]])
             later == processFrom(branches, i + 1, octokit, pushed, created)
         IN  [pushes |-> turn.pushes \o later.pushes,
              prs |-> turn.prs \o later.prs,
              prUrls |-> turn.prUrls \o later.prUrls]

\* processAllSentinelBranches: no branch: return []; else the loop
processAllSentinelBranches(branches, octokit, pushed, created) ==
    processFrom(branches, 1, octokit, pushed, created)

\* ------------------------------------------------------------------------
\* the branch of the fix and the branch of the pull request
\* ------------------------------------------------------------------------
\* package names a report can carry: the simple ones, a scoped one, one with
\* a dot and one with capitals
PackageNames == SimpleNames \cup {"@babel/core", "socket.io", "JSONStream"}

\* for the top diagnosis: committed is the branchName applyFix derives from
\* suggestedFix and commits on, requested the branchName orchestrateFix
\* derives from description and passes to createPullRequest
fixBranches(topIssue) ==
    LET match == matchSuggestedFix(topIssue.suggestedFix)
    IN  [committed |-> IF match = <<>> THEN "" ELSE fixBranchName(match[1]),
         requested |-> fixBranchName(descriptionPackage(topIssue.description))]

\* the calls: which function, on which input
FnCalls ==
    {[fn |-> "parseSnykOutput", input |-> [vulnerabilities |-> vs]] :
        vs \in SeqUpTo(SnykRawPool, MaxFindings)}
    \cup {[fn |-> "parseAuditOutput", input |-> [vulnerabilities |-> vs]] :
        vs \in SeqUpTo(AuditRawPool, MaxFindings)}
    \cup {[fn |-> "legacyParseAuditOutput", input |-> data] :
        data \in AuditOutputsWithMetadata}
    \cup {[fn |-> "nmapScan", input |-> ports] :
        ports \in SeqUpTo(NmapPortPool, MaxFindings)}
    \cup {[fn |-> "diagnose", input |-> doc] : doc \in StoredReports}
    \cup {[fn |-> "generateRemediationSteps", input |-> vuln] : vuln \in GuidanceFindings}
    \cup {[fn |-> "generateDastRemediation", input |-> vuln] : vuln \in GuidanceFindings}
    \cup {[fn |-> "orchestrateFix", input |-> [scanResult |-> doc, options |-> opts]] :
        doc \in StoredReports, opts \in FixOptions}
    \cup {[fn |-> "test",
           input |-> [version |-> v, scan |-> c, stdout |-> [vulnerabilities |-> <<SnykLodash>>]]] :
        v \in [1..maxRetries -> {"ok", "killed", "network", "missing"}],
        c \in [1..maxRetries -> {"ok", "killed", "network", "exit"}]}
    \cup {[fn |-> "processAllSentinelBranches",
           input |-> [branches |-> bs, octokit |-> o, pushed |-> ps, created |-> cs]] :
        bs \in {b \in SeqUpTo(SentinelBranches, Cardinality(SentinelBranches)) :
                   \A i, j \in 1..Len(b) : b[i] = b[j] => i = j},
        o \in BOOLEAN,
        ps \in [SentinelBranches -> BOOLEAN],
        cs \in [SentinelBranches -> BOOLEAN]}
    \cup {[fn |-> "fixBranches",
           input |-> parseSnykOutput([vulnerabilities |->
                        <<[SnykLodash EXCEPT !.packageName = name]>>])] :
        name \in PackageNames}
    \cup {[fn |-> "mergeDastResults",
           input |-> [nmapResults |-> n, metasploitResults |-> m]] :
        n \in {<<>>} \cup {<<nmapScan(ports)>> : ports \in SeqUpTo(NmapPortPool, MaxFindings)},
        m \in {<<>>} \cup {<<[vulnerabilities |-> found, summary |-> CountSummary(found)]>> :
                              found \in MsfResults}}

\* no run of runWarden in progress
PipelineIdle ==
    /\ options = [scanMode |-> "sast", scanner |-> "all", repository |-> FALSE,
                  dryRun |-> TRUE]
    /\ pc = "done"
    /\ stage = "try"
    /\ cwd = originalCwd
    /\ outcome = "returned"
    /\ latestFile = Absent
    /\ tmpFile = Absent
    /\ scanResult = <<>>
    /\ mockResult = <<>>
    /\ attempt = 1
    /\ save = <<>>
    /\ githubToken = FALSE
    /\ diagnoses = <<>>
    /\ fix = NoFix
    /\ fixSuccess = <<>>
    /\ applyFixCalls = 0
    /\ git = [branch |-> "main",
              heads |-> [b \in {"main"} |-> Tree(ManifestDirect, ManifestDirect, "v1")],
              index |-> Tree(ManifestDirect, ManifestDirect, "v1"),
              work |-> Tree(ManifestDirect, ManifestDirect, "v1"),
              pushed |-> {}]
    /\ prCalls = <<>>
    /\ prs = <<>>
    /\ scannerCalls = <<>>
    /\ lastFailure = <<>>
    /\ thrown = <<>>
    /\ advisoryFile = Absent
    /\ dast = NoDast

\* one call chosen, not yet made
FnInit ==
    /\ PipelineIdle
    /\ fnCall \in FnCalls
    /\ fnResult = <<>>
    /\ watchman = <<>>

\* the variables of the pipeline, which a call on its own leaves alone
pipelineVars ==
    <<runVars, pc, fileVars, scanVars, fixVars, prVars, git, detectVars, dastVars>>

\* the report a normalizer returned, its summary as JavaScript values
Returned(report) ==
    <<[vulnerabilities |-> report.vulnerabilities,
       summary |-> Counters(report.summary)]>>

FnParseSnykOutput ==
    /\ fnResult = <<>>
    /\ fnCall.fn = "parseSnykOutput"
    /\ fnResult' = Returned(parseSnykOutput(fnCall.input))
    /\ UNCHANGED <<pipelineVars, fnCall, watchman>>

FnParseAuditOutput ==
    /\ fnResult = <<>>
    /\ fnCall.fn = "parseAuditOutput"
    /\ fnResult' = Returned(parseAuditOutput(fnCall.input))
    /\ UNCHANGED <<pipelineVars, fnCall, watchman>>

FnLegacyParseAuditOutput ==
    /\ fnResult = <<>>
    /\ fnCall.fn = "legacyParseAuditOutput"
    /\ fnResult' = <<legacyParseAuditOutput(fnCall.input)>>
    /\ UNCHANGED <<pipelineVars, fnCall, watchman>>

FnNmapScan ==
    /\ fnResult = <<>>
    /\ fnCall.fn = "nmapScan"
    /\ fnResult' = Returned(nmapScan(fnCall.input))
    /\ UNCHANGED <<pipelineVars, fnCall, watchman>>

\* diagnose: the findings in the order prioritizeVulnerabilities gave
\* them, and the diagnoses mapped from them one to one
FnDiagnose ==
    /\ fnResult = <<>>
    /\ fnCall.fn = "diagnose"
    /\ fnResult' = <<[prioritized |-> prioritizeVulnerabilities(fnCall.input.vulnerabilities),
                      diagnoses |-> diagnose(fnCall.input)]>>
    /\ UNCHANGED <<pipelineVars, fnCall, watchman>>

\* mergeDastResults of the Watchman: null (<<>>) when neither scanner
\* returned, else both lists concatenated and the summary counted from the
\* merged list
watchmanMergeDastResults(nmapResults, metasploitResults) ==
    IF nmapResults = <<>> /\ metasploitResults = <<>> THEN <<>>
    ELSE LET vulnerabilities ==
                 (IF nmapResults = <<>> THEN <<>> ELSE nmapResults[1].vulnerabilities)
                 \o (IF metasploitResults = <<>> THEN <<>>
                     ELSE metasploitResults[1].vulnerabilities)
         IN  <<[vulnerabilities |-> vulnerabilities,
                summary |-> CountSummary(vulnerabilities),
                scanMode |-> "dast"]>>

\* the two merges of the scanners' reports: the one of runDastWorkflow, and
\* mergeDastResults of the Watchman, which returns null when it has neither
FnMergeDastResults ==
    /\ fnResult = <<>>
    /\ fnCall.fn = "mergeDastResults"
    /\ fnResult' = <<[orchestrator |-> mergeDastResults(fnCall.input.nmapResults,
                                                        fnCall.input.metasploitResults),
                      watchman |-> watchmanMergeDastResults(fnCall.input.nmapResults,
                                                            fnCall.input.metasploitResults)]>>
    /\ UNCHANGED <<pipelineVars, fnCall, watchman>>

FnGenerateRemediationSteps ==
    /\ fnResult = <<>>
    /\ fnCall.fn = "generateRemediationSteps"
    /\ fnResult' = <<generateRemediationSteps(fnCall.input)>>
    /\ UNCHANGED <<pipelineVars, fnCall, watchman>>

FnGenerateDastRemediation ==
    /\ fnResult = <<>>
    /\ fnCall.fn = "generateDastRemediation"
    /\ fnResult' = <<generateDastRemediation(fnCall.input)>>
    /\ UNCHANGED <<pipelineVars, fnCall, watchman>>

\* orchestrateFix on a report the scan has just saved
FnOrchestrateFix ==
    /\ fnResult = <<>>
    /\ fnCall.fn = "orchestrateFix"
    /\ fnResult' = <<[topIssue |-> selectTopIssue(fnCall.input.scanResult,
                                                  fnCall.input.scanResult,
                                                  fnCall.input.options)]>>
    /\ UNCHANGED <<pipelineVars, fnCall, watchman>>

\* SnykScanner.test on commands that end in a given way on each attempt
FnTest ==
    /\ fnResult = <<>>
    /\ fnCall.fn = "test"
    /\ fnResult' = <<test(fnCall.input.version, fnCall.input.scan, fnCall.input.stdout)>>
    /\ UNCHANGED <<pipelineVars, fnCall, watchman>>

FnProcessAllSentinelBranches ==
    /\ fnResult = <<>>
    /\ fnCall.fn = "processAllSentinelBranches"
    /\ fnResult' = <<processAllSentinelBranches(fnCall.input.branches, fnCall.input.octokit,
                                                fnCall.input.pushed, fnCall.input.created)>>
    /\ UNCHANGED <<pipelineVars, fnCall, watchman>>

\* diagnose, applyFix and the createPullRequest call of orchestrateFix on a
\* report with one fixable finding
FnFixBranches ==
    /\ fnResult = <<>>
    /\ fnCall.fn = "fixBranches"
    /\ fnResult' = <<fixBranches(diagnose(fnCall.input)[1])>>
    /\ UNCHANGED <<pipelineVars, fnCall, watchman>>

FnNext ==
    \/ FnParseSnykOutput
    \/ FnParseAuditOutput
    \/ FnLegacyParseAuditOutput
    \/ FnNmapScan
    \/ FnDiagnose
    \/ FnMergeDastResults
    \/ FnGenerateRemediationSteps
    \/ FnGenerateDastRemediation
    \/ FnOrchestrateFix
    \/ FnTest
    \/ FnProcessAllSentinelBranches
    \/ FnFixBranches

FnSpec == FnInit /\ [][FnNext]_vars

\* ------------------------------------------------------------------------
\* The Watchman on its own (agents/watchman/index.ts): main and
\* runDastScan, up to process.exit
\* ------------------------------------------------------------------------
\* what `snyk test --json` prints when it could not test the project: an
\* error document, with no vulnerabilities property; the command exits
\* non-zero, as it does when it found vulnerabilities
SnykErrorDocument == [json |-> TRUE, ok |-> FALSE, error |-> "could not test"]

\* SnykScanner.test on what the command printed, when the files can be
\* written: text that is no JSON throws; a document with no
\* vulnerabilities array parses to the empty report; a report that fails
\* validation throws.  <<>> when test throws, <<report>> when it returns.
snykTest(stdout) ==
    IF ~stdout.json THEN <<>>
    ELSE LET result == parseSnykOutput(
                 [vulnerabilities |-> IF "vulnerabilities" \in DOMAIN stdout
                                      THEN stdout.vulnerabilities ELSE <<>>])
         IN  IF validateScanResult(result) THEN <<withMetadata(result)>> ELSE <<>>

\* a + b of two numbers that may be undefined: <<n>>, or <<>> for NaN
Plus(x, y) == IF x = <<>> \/ y = <<>> THEN <<>> ELSE <<x[1] + y[1]>>

\* the exit code after a scan that returned results: criticalCount =
\* summary.critical + summary.high; criticalCount > 0 ? 1 : 0 (NaN > 0 is
\* false)
exitCode(summary) ==
    LET criticalCount == Plus(summary.critical, summary.high)
    IN  IF criticalCount # <<>> /\ criticalCount[1] > 0 THEN 1 ELSE 0

\* the Watchman process before main runs.  ran lists the scanners started,
\* each with what came of it: "report" when the scanner produced a report
\* of findings that the Watchman took over, "failed" when it did not.
WatchmanStart(mode) ==
    [pc |-> "main", mode |-> mode, ran |-> <<>>, results |-> <<>>,
     target |-> <<>>, nmapEnabled |-> FALSE, metasploitEnabled |-> FALSE,
     nmapResults |-> <<>>, metasploitResults |-> <<>>, exit |-> <<>>]

\* process.exit(code)
exits(w, code) == [w EXCEPT !.pc = "exited", !.exit = <<code>>]

\* the scanner has ended
hasRun(w, scanner, ending) ==
    [w EXCEPT !.ran = Append(@, ScannerCall(scanner, ending))]

WatchmanInit ==
    /\ PipelineIdle
    /\ fnCall = <<>>
    /\ fnResult = <<>>
    /\ watchman \in {WatchmanStart(mode) : mode \in {"sast", "dast"}}

\* main, "1. Try Snyk Scanner": results = await snykScanner.test(); when
\* it throws, go on to npm audit
WatchmanSnyk ==
    /\ watchman.pc = "main"
    /\ watchman.mode = "sast"
    /\ \/ \E stdout \in SnykOutputs \cup {SnykErrorDocument} :
            LET results == snykTest(stdout)
                ending == IF results # <<>> /\ "vulnerabilities" \in DOMAIN stdout
                          THEN "report" ELSE "failed"
            IN  watchman' =
                  [hasRun(watchman, "snyk", ending) EXCEPT
                     !.results = IF results = <<>> THEN <<>>
                                 ELSE <<[vulnerabilities |-> results[1].vulnerabilities,
                                         summary |-> Counters(results[1].summary)]>>,
                     !.pc = IF results = <<>> THEN "audit" ELSE "report"]
       \/ watchman' = [hasRun(watchman, "snyk", "failed") EXCEPT !.pc = "audit"]
    /\ UNCHANGED <<pipelineVars, fnVars>>

\* main, "2. Fallback to npm audit": auditScanner.scan(), then
\* saveResults; when either throws: process.exit(2)
WatchmanAudit ==
    /\ watchman.pc = "audit"
    /\ \/ \E data \in AuditOutputsWithMetadata, saved \in BOOLEAN :
            watchman' =
              IF saved
              THEN [hasRun(watchman, "npm-audit", "report") EXCEPT
                      !.results = <<legacyParseAuditOutput(data)>>,
                      !.pc = "report"]
              ELSE exits(hasRun(watchman, "npm-audit", "report"), 2)
       \/ watchman' = exits(hasRun(watchman, "npm-audit", "failed"), 2)
    /\ UNCHANGED <<pipelineVars, fnVars>>

\* main and runDastScan, from the HTML report (a failure is logged) to the
\* exit code
WatchmanExit ==
    /\ watchman.pc = "report"
    /\ watchman' = exits(watchman, exitCode(watchman.results[1].summary))
    /\ UNCHANGED <<pipelineVars, fnVars>>

\* runDastScan up to the scanners: no or disabled DAST configuration, an
\* unknown target, no authorized target or an invalid configuration:
\* process.exit(1); else the target (a named one need not be authorized)
\* and the scanners the configuration enables
WatchmanDastConfigure ==
    /\ watchman.pc = "main"
    /\ watchman.mode = "dast"
    /\ \/ watchman' = exits(watchman, 1)
       \/ \E authorized \in BOOLEAN, nmapOn \in BOOLEAN, msfOn \in BOOLEAN :
            watchman' = [watchman EXCEPT !.target = <<[authorized |-> authorized]>>,
                                         !.nmapEnabled = nmapOn,
                                         !.metasploitEnabled = msfOn,
                                         !.pc = "nmap"]
    /\ UNCHANGED <<pipelineVars, fnVars>>

\* runDastScan, "Run Nmap scan": a scan that throws (target not
\* authorized, nmap missing or failing) is logged
WatchmanNmap ==
    /\ watchman.pc = "nmap"
    /\ IF ~watchman.nmapEnabled
       THEN watchman' = [watchman EXCEPT !.pc = "metasploit"]
       ELSE IF ~watchman.target[1].authorized
       THEN watchman' = [hasRun(watchman, "nmap", "failed") EXCEPT !.pc = "metasploit"]
       ELSE \/ \E ports \in SeqUpTo(NmapPortPool, MaxFindings) :
                 watchman' = [hasRun(watchman, "nmap", "report") EXCEPT
                                !.nmapResults = <<nmapScan(ports)>>,
                                !.pc = "metasploit"]
            \/ watchman' = [hasRun(watchman, "nmap", "failed") EXCEPT !.pc = "metasploit"]
    /\ UNCHANGED <<pipelineVars, fnVars>>

\* runDastScan, "Run Metasploit scan": a scan that throws is logged
WatchmanMetasploit ==
    /\ watchman.pc = "metasploit"
    /\ IF ~watchman.metasploitEnabled
       THEN watchman' = [watchman EXCEPT !.pc = "merge"]
       ELSE \/ \E found \in MsfResults :
                 watchman' = [hasRun(watchman, "metasploit", "report") EXCEPT
                                !.metasploitResults =
                                    <<[vulnerabilities |-> found,
                                       summary |-> CountSummary(found)]>>,
                                !.pc = "merge"]
            \/ watchman' = [hasRun(watchman, "metasploit", "failed") EXCEPT !.pc = "merge"]
    /\ UNCHANGED <<pipelineVars, fnVars>>

\* runDastScan, "Merge results" and "Save results": nothing to merge:
\* process.exit(2); saveResults throws: the rejection of main is handled
\* nowhere and node exits with code 1
WatchmanMerge ==
    /\ watchman.pc = "merge"
    /\ LET mergedResults ==
               watchmanMergeDastResults(watchman.nmapResults, watchman.metasploitResults)
       IN  IF mergedResults = <<>>
           THEN watchman' = exits(watchman, 2)
           ELSE \E saved \in BOOLEAN :
                  watchman' =
                    IF saved
                    THEN [watchman EXCEPT
                            !.results = <<[vulnerabilities |-> mergedResults[1].vulnerabilities,
                                           summary |-> Counters(mergedResults[1].summary)]>>,
                            !.pc = "report"]
                    ELSE exits(watchman, 1)
    /\ UNCHANGED <<pipelineVars, fnVars>>

WatchmanNext ==
    \/ WatchmanSnyk
    \/ WatchmanAudit
    \/ WatchmanExit
    \/ WatchmanDastConfigure
    \/ WatchmanNmap
    \/ WatchmanMetasploit
    \/ WatchmanMerge

WatchmanSpec == WatchmanInit /\ [][WatchmanNext]_vars




\* ------------------------------------------------------------------------
\* Properties
\* ------------------------------------------------------------------------
\* applyFix is running (it was called and has not returned)
InApplyFix ==
    pc \in {"af_parse", "af_checkout", "af_patch", "af_install", "af_test",
            "af_revert", "af_clean", "af_stage", "af_commit"}

\* a step that commits on a branch that existed before the step
CommitMade ==
    \E b \in DOMAIN git.heads : b \in DOMAIN git'.heads /\ git'.heads[b] # git.heads[b]

\* the work tree and the index hold exactly what the branch has committed
NoUncommittedChanges ==
    /\ git.work = git.heads[git.branch]
    /\ git.index = git.heads[git.branch]

\* applyFix has returned to orchestrateFix
FixReturned == pc = "of_afterfix"

\* C1: a step of applyFix stages or commits the fix, or puts the attempt in
\* state Committed, only when `npm test` has passed earlier in the same
\* applyFix call.
C1_CommitOnlyAfterTestsPassed ==
    [][(\/ CommitMade
        \/ pc \in {"af_stage", "af_commit"}
        \/ (fix'.state = "Committed" /\ fix.state # "Committed"))
          => (fix.tests = "passed" /\ InApplyFix)]_vars

\* C1 witness: an attempt whose tests passed has committed the fix.
C1_Witness ==
    /\ FixReturned
    /\ fix.state = "Committed"
    /\ fix.tests = "passed"
    /\ git.heads[git.branch].manifest # fix.before

\* C2: for a dependency fix (the SAST path), createPullRequest is called,
\* and a pull request is opened, only after the applyFix call of the same
\* orchestrateFix returned true with the manifest written, the tests passed
\* and the fix committed.
C2_PullRequestOnlyAfterFix ==
    [][(stage # "dast" /\ (Len(prCalls') > Len(prCalls) \/ Len(prs') > Len(prs)))
          => /\ fixSuccess = <<TRUE>>
             /\ fix.wrote
             /\ fix.tests = "passed"
             /\ fix.state = "Committed"]_vars

\* C2 witness: a pull request was opened for a committed fix.
C2_Witness ==
    /\ Len(prs) > 0
    /\ fixSuccess = <<TRUE>>
    /\ fix.state = "Committed"

C4_ExceptionRollsBack ==
    (FixReturned /\ fix.wrote /\ fix.tests # "failed" /\ fix.state # "Committed")
        => /\ fixSuccess = <<FALSE>>
           /\ declaredVersion(git.work.manifest, fix.packageName)
                = declaredVersion(fix.before, fix.packageName)

\* the finding diagnose put first, which applyFix is working on
targetFinding == prioritizeVulnerabilities(latestFile.doc.vulnerabilities)[1]

\* C5: the finding applyFix is called with has a non-empty fixedIn list.
C5_TargetIsFixable ==
    InApplyFix => canAttemptFix(targetFinding)

\* C6: applyFix is invoked at most once in a run of runWarden.
C6_AtMostOneFix == applyFixCalls <= 1

\* C7: the mock report is substituted only in a run on a local target whose
\* scan stage returned no report.
C7_MockOnlyWhenAllScannersFailed ==
    mockResult # <<>> => (scanResult = <<>> /\ ~options.repository)

\* C8: a report the scan stage returned passes validateScanResult and its
\* summary counts are those of its findings.
C8_ReturnedReportValidated ==
    scanResult # <<>>
        => /\ validateScanResult(scanResult[1])
           /\ scanResult[1].summary = CountSummary(scanResult[1].vulnerabilities)

\* C9: scan-results/scan-results.json never holds partial content.
C9_LatestNeverPartial == latestFile.kind # "partial"

\* C10: when the scan stage has just returned a report, the document at
\* scan-results/scan-results.json is the JSON document of that report
\* (findings, summary and metadata), whichever scanner produced it.
C10_LatestIsReturnedReport ==
    (pc = "of_filter" /\ stage = "try")
        => latestFile = Json(stringify(scanResult[1]))


\* the failures the retry policy calls transient: a timeout or kill
\* signal, ENOTFOUND, ECONNREFUSED
TransientErrors == {"killed", "network"}

\* C13: retryWithBackoff starts another attempt only after a failure whose
\* error is transient; after any other error it starts none, and no step
\* outside the two retried operations (parsing, validation, saving) starts
\* one.
C13_RetryOnlyTransient ==
    [][/\ attempt' > attempt
          => /\ pc \in {"snyk_version", "snyk_scan"}
             /\ lastFailure' # <<>>
             /\ lastFailure'[1].error \in TransientErrors
             /\ lastFailure'[1].attempt = attempt
       /\ (lastFailure' # <<>> /\ lastFailure' # lastFailure
             /\ lastFailure'[1].error \notin TransientErrors)
          => /\ ~lastFailure'[1].retried
             /\ attempt' = 1
             /\ pc' # pc]_vars

\* C13 witness: a network failure of the second attempt was retried, and a
\* third attempt is in progress.
C13_Witness ==
    /\ lastFailure # <<>>
    /\ lastFailure[1].error = "network"
    /\ lastFailure[1].attempt = 2
    /\ lastFailure[1].retried
    /\ attempt = 3

\* C14: when `snyk test` is killed by its timeout while attempts remain,
\* the scan is tried again.
C14_ScanTimeoutRetried ==
    (/\ lastFailure # <<>>
     /\ lastFailure[1].op = "scan"
     /\ lastFailure[1].cause = "killed"
     /\ lastFailure[1].attempt < maxRetries)
        => (lastFailure[1].retried /\ pc = "snyk_scan")

\* C15: with scanner preference 'snyk' or 'all', Snyk is invoked first and
\* once; npm-audit is invoked only after Snyk failed, at most once, and it
\* is invoked whenever Snyk failed; after Snyk returned a report npm-audit
\* is not invoked.
C15_FallbackIffSnykFailed ==
    (options.scanner \in {"snyk", "all"} /\ scannerCalls # <<>>)
        => /\ Len(scannerCalls) <= 2
           /\ scannerCalls[1].scanner = "snyk"
           /\ Len(scannerCalls) = 2
                => /\ scannerCalls[2].scanner = "npm-audit"
                   /\ scannerCalls[1].outcome = "failed"
           /\ (scannerCalls[1].outcome = "failed" /\ pc # "npm_audit")
                => Len(scannerCalls) = 2
           /\ scannerCalls[1].outcome = "returned" => pc # "npm_audit"

\* C15 witness: Snyk failed and the one npm-audit invocation returned a
\* report.
C15_Witness ==
    /\ options.scanner = "all"
    /\ Len(scannerCalls) = 2
    /\ scannerCalls[1] = ScannerCall("snyk", "failed")
    /\ scannerCalls[2] = ScannerCall("npm-audit", "returned")
    /\ scanResult # <<>>

\* C16: when Snyk and npm-audit have both failed, the error runWarden
\* catches from the scan stage names both failures.
C16_CombinedErrorNamesBoth ==
    (/\ thrown # <<>>
     /\ Len(scannerCalls) = 2
     /\ scannerCalls[1] = ScannerCall("snyk", "failed")
     /\ scannerCalls[2] = ScannerCall("npm-audit", "failed"))
        => {"snyk", "npm-audit"} \subseteq thrown[1].names

\* C17: on the SAST path, whenever createPullRequest is entered or a pull
\* request has been opened, the branch the request names has been pushed
\* to the remote by this run.
C17_FixBranchPushedBeforePullRequest ==
    (stage # "dast" /\ prCalls # <<>>)
        => prCalls[Len(prCalls)] \in git.pushed

\* C18: on the DAST path, whenever createPullRequest is entered or a pull
\* request has been opened, the advisory is on disk, the advisory branch
\* exists and is checked out, nothing is uncommitted, and the branch has
\* been pushed.
C18_AdvisoryCommittedAndPushed ==
    (stage = "dast" /\ prCalls # <<>>)
        => /\ advisoryFile.kind = "json"
           /\ prCalls[Len(prCalls)] \in DOMAIN git.heads
           /\ git.branch = prCalls[Len(prCalls)]
           /\ prCalls[Len(prCalls)] \in git.pushed

\* C19: when runWarden has exited, by return or by throw, the working
\* directory is the one that was current when it was called.
C19_CwdRestoredOnEveryExit ==
    pc = "done" => cwd = originalCwd

\* C19 witness: runWarden changed into the cloned workspace, the scan
\* failed there, the error was rethrown, and the directory is the
\* original one again.
C19_Witness ==
    /\ pc = "done"
    /\ options.repository
    /\ scannerCalls # <<>>
    /\ outcome = "threw"
    /\ cwd = originalCwd

C11_SummaryCountsFindings ==
    (/\ fnResult # <<>>
     /\ fnCall.fn \in {"parseSnykOutput", "parseAuditOutput", "legacyParseAuditOutput",
                       "nmapScan"})
        => LET report == fnResult[1] IN
           /\ report.summary.total = <<Len(report.vulnerabilities)>>
           /\ \A tier \in validSeverities :
                 report.summary[tier] = <<CountSeverity(report.vulnerabilities, tier)>>

\* C12: in the order diagnose works through the findings, every adjacent
\* pair has the tier of the former at least that of the latter and, in
\* the same tier, the cvssScore of the former at least that of the latter,
\* an absent score counting as the lowest score, zero.
C12_DiagnosesSorted ==
    (fnResult # <<>> /\ fnCall.fn = "diagnose")
        => LET sorted == fnResult[1].prioritized
               tier(v) == SEVERITY_PRIORITY[v.severity]
               score(v) == IF "cvssScore" \in DOMAIN v THEN v.cvssScore[1] ELSE 0
           IN  /\ Len(fnResult[1].diagnoses) = Len(sorted)
               /\ \A i \in 1..Len(sorted) :
                     fnResult[1].diagnoses[i].vulnerabilityId = sorted[i].id
               /\ \A i \in 1..(Len(sorted) - 1) :
                     /\ tier(sorted[i]) >= tier(sorted[i + 1])
                     /\ tier(sorted[i]) = tier(sorted[i + 1])
                           => score(sorted[i]) >= score(sorted[i + 1])

\* C21: when the remediation sentence does not parse, or package.json
\* declares the target package neither under dependencies nor under
\* devDependencies, the step of applyFix that finds it returns false and
\* writes and commits nothing; and after an applyFix that returned false
\* the run creates no commit and calls for no pull request, throws
\* nothing and goes to its normal end.
C21_UnpatchableFailsWithoutWriting ==
    [][/\ ((\/ /\ pc = "af_parse"
                /\ matchSuggestedFix(diagnoses[1].suggestedFix) = <<>>
             \/ /\ pc = "af_patch"
                /\ "missing" \notin DOMAIN git.work.manifest
                /\ fix.packageName \notin DOMAIN git.work.manifest.dependencies
                /\ fix.packageName \notin DOMAIN git.work.manifest.devDependencies)
               => /\ pc' = "of_afterfix"
                  /\ fixSuccess' = <<FALSE>>
                  /\ git' = git
                  /\ ~fix'.wrote
                  /\ fix'.tests = "not-run"
                  /\ fix'.state # "Committed")
       /\ ((fixSuccess = <<FALSE>> /\ pc \in {"of_afterfix", "rw_finally"})
               => /\ pc' \in {"rw_finally", "done"}
                  /\ git' = git
                  /\ prCalls' = prCalls
                  /\ prs' = prs
                  /\ outcome' # "threw")]_vars

\* C21 witness: the target package is no direct dependency; applyFix
\* returned false on the fix branch without writing, and the run ended
\* normally with no pull request.
C21_Witness ==
    /\ pc = "done"
    /\ outcome = "returned"
    /\ fixSuccess = <<FALSE>>
    /\ fix.state = "BranchReady"
    /\ "missing" \notin DOMAIN git.work.manifest
    /\ ~isDirectDependency(git.work.manifest, fix.packageName)
    /\ ~fix.wrote
    /\ prCalls = <<>>

C23_ThreeOutcomes ==
    (pc = "done" /\ scannerCalls # <<>> /\ ~options.dryRun)
        => LET failed == scanResult = <<>>
               actionable == scanResult # <<>>
                             /\ Len(filterHighPriority(scanResult[1])) > 0
               clean == scanResult # <<>> /\ ~actionable
               handled == actionable /\ fixSuccess = <<TRUE>>
           IN  /\ failed \/ clean \/ handled
               /\ failed => outcome = "threw"
               /\ (clean \/ handled) => outcome = "returned"

\* C24: when the Watchman has exited after it started a scanner, the exit
\* code is 0 exactly when a scanner produced a report and the results hold
\* no critical or high finding, 1 exactly when a scanner produced a report
\* and the results hold such a finding, and 2 exactly when no scanner
\* produced a report; in SAST and in DAST mode.
C24_ExitCodes ==
    (watchman.pc = "exited" /\ watchman.ran # <<>>)
        => LET succeeded == \E i \in 1..Len(watchman.ran) :
                                watchman.ran[i].outcome = "report"
               urgent == IF watchman.results = <<>> THEN 0
                         ELSE Len(filterHighPriority(watchman.results[1]))
               code == watchman.exit[1]
           IN  /\ code = 0 <=> (succeeded /\ urgent = 0)
               /\ code = 1 <=> (succeeded /\ urgent > 0)
               /\ code = 2 <=> ~succeeded

\* C25: no run waits for ever for an external command or request: every
\* such call returns, fails, or is ended by its timeout, so the run goes on
\* to its end.
C25_NoCallBlocksTheRun ==
    pc # "blocked"

\* C26: the merged DAST report holds the Nmap findings followed by the
\* Metasploit findings, every one of them kept (two findings on the same
\* port are both there), and its summary is counted from the merged list
C26_MergeKeepsBothLists ==
    (fnCall.fn = "mergeDastResults" /\ fnResult # <<>>)
        => LET fromNmap == IF fnCall.input.nmapResults = <<>> THEN <<>>
                           ELSE fnCall.input.nmapResults[1].vulnerabilities
               fromMsf == IF fnCall.input.metasploitResults = <<>> THEN <<>>
                          ELSE fnCall.input.metasploitResults[1].vulnerabilities
               Kept(report) ==
                   /\ Len(report.vulnerabilities) = Len(fromNmap) + Len(fromMsf)
                   /\ \A i \in 1..Len(fromNmap) : report.vulnerabilities[i] = fromNmap[i]
                   /\ \A j \in 1..Len(fromMsf) :
                        report.vulnerabilities[Len(fromNmap) + j] = fromMsf[j]
                   /\ report.summary.total = Len(fromNmap) + Len(fromMsf)
                   /\ \A sev \in {"critical", "high", "medium", "low"} :
                        report.summary[sev] =
                            CountSeverity(fromNmap, sev) + CountSeverity(fromMsf, sev)
           IN  /\ Kept(fnResult[1].orchestrator)
               /\ fnResult[1].watchman # <<>> => Kept(fnResult[1].watchman[1])

\* both scanners reported port 3306, and both merges kept both findings
C26_Witness ==
    /\ fnCall.fn = "mergeDastResults"
    /\ fnResult # <<>>
    /\ fnResult[1].watchman # <<>>
    /\ \E report \in {fnResult[1].orchestrator, fnResult[1].watchman[1]} :
         \E i, j \in 1..Len(report.vulnerabilities) :
            /\ i < j
            /\ report.vulnerabilities[i].targetPort = report.vulnerabilities[j].targetPort
            /\ report.vulnerabilities[i].id[1] = "nmap"
            /\ report.vulnerabilities[j].id[1] = "msf"
    /\ \A report \in {fnResult[1].orchestrator, fnResult[1].watchman[1]} :
         report.summary.total = Len(report.vulnerabilities)
\* C27: generating the remediation guidance of a finding always returns a
\* guidance that is not empty, and for a finding whose port and service
\* both match nothing in the tables (a finding with neither among them) the
\* guidance holds the generic review recommendation
C27_GuidanceTotalWithGenericFallback ==
    (fnCall.fn \in {"generateRemediationSteps", "generateDastRemediation"} /\ fnResult # <<>>)
        => LET vuln == fnCall.input
               guidance == fnResult[1]
               portMatches ==
                   /\ vuln.targetPort # <<>>
                   /\ vuln.targetPort[1] \in {21, 23, 80, 443, 3306, 5432, 6379, 8080,
                                              8443, 9200, 9300, 27017}
               serviceMatches ==
                   /\ vuln.service # <<>>
                   /\ toLowerCase(vuln.service[1]) \in {"ssh", "openssh", "mysql", "postgresql"}
               Holds(lines) ==
                   \E k \in 0..(Len(guidance) - Len(lines)) :
                      \A i \in 1..Len(lines) : guidance[k + i] = lines[i]
           IN  /\ \E i \in 1..Len(guidance) : guidance[i] # ""
               /\ (~portMatches /\ ~serviceMatches)
                      => Holds(GenericRecommendation) \/ Holds(DefaultRemediation)
C29_LabelFailureIsNotFatal ==
    [][/\ (pc = "pr_labels" /\ pc' # "blocked" /\ prs' = prs)
              => pc' = "pr_assign" /\ thrown' = thrown /\ outcome' = outcome
       /\ (pc = "pr_assign" /\ pc' # "blocked" /\ prs' = prs)
              => pc' = orchestrateReturn /\ thrown' = thrown /\ outcome' = outcome
       /\ (pc \in {"pr_labels", "pr_assign"} \/ (pc = orchestrateReturn /\ prs # <<>>))
              => /\ Len(prs') = Len(prs)
                 /\ prs'[Len(prs)].head = prs[Len(prs)].head
                 /\ outcome' # "threw"]_vars

\* a run has ended normally with its pull request open, after both the
\* request for the labels and the one for the assignee failed
C29_Witness ==
    /\ pc = "done"
    /\ outcome = "returned"
    /\ prs # <<>>
    /\ prs[Len(prs)].labels = {}
    /\ prs[Len(prs)].assignees = {}
    /\ prs[Len(prs)].head = prCalls[Len(prCalls)]
\* C30: --severity is the minimum severity to fix: the finding selected for
\* fixing is never of a tier below options.minSeverity, and a report with a
\* finding at or above options.minSeverity has a finding selected
C30_MinSeverityBoundsSelection ==
    (fnCall.fn = "orchestrateFix" /\ fnResult # <<>>)
        => LET minSeverity == fnCall.input.options.minSeverity
               vulns == fnCall.input.scanResult.vulnerabilities
               topIssue == fnResult[1].topIssue
               tier(d) == CHOOSE sev \in validSeverities :
                             toUpperCase(sev) = d.description.severity
           IN  /\ topIssue # <<>>
                    => SEVERITY_PRIORITY[tier(topIssue[1])] >= SEVERITY_PRIORITY[minSeverity]
               /\ (\E i \in 1..Len(vulns) :
                      SEVERITY_PRIORITY[vulns[i].severity] >= SEVERITY_PRIORITY[minSeverity])
                    => topIssue # <<>>
\* C31: when `snyk test` is killed by its timeout on its first k attempts
\* and succeeds on attempt k+1 <= maxRetries (the version check having
\* succeeded), test() returns the report of that attempt with
\* metadata.retryCount = k, and so does not throw into the fallback scanner
C31_RetryCountCountsRetries ==
    (fnCall.fn = "test" /\ fnResult # <<>> /\ fnCall.input.version[1] = "ok")
        => \A k \in 0..(maxRetries - 1) :
              (/\ \A i \in 1..k : fnCall.input.scan[i] = "killed"
               /\ fnCall.input.scan[k + 1] = "ok")
                  => /\ fnResult[1].ending = "returned"
                     /\ fnResult[1].scanAttempts = k + 1
                     /\ fnResult[1].report[1].metadata[1].retryCount = k
\* C32: the delay before the n-th retry of the version check (seen where
\* test() ends in it) is retryDelayMs x 2^(n-1), and with
\* the defaults an operation that fails transiently on every attempt is
\* followed by the delays 2 s, 4 s and 8 s before test() gives up
C32_BackoffDelays ==
    (fnCall.fn = "test" /\ fnResult # <<>>)
        => LET delays == fnResult[1].delays
               keepsFailing == \A i \in 1..maxRetries :
                                  fnCall.input.version[i] \in TransientErrors
           IN  /\ fnResult[1].scanAttempts = 0
                    => \A n \in 1..Len(delays) : delays[n] = retryDelayMs * 2^(n - 1)
               /\ keepsFailing
                    => fnResult[1].ending = "threw" /\ delays = <<2000, 4000, 8000>>
\* C33: at the step in which SnykScanner.test() throws, whatever the cause,
\* scan-results/scan-results.json holds the fallback result: no findings,
\* an all-zero summary, and metadata.errors naming the failure
C33_FallbackSavedBeforeThrow ==
    [][(/\ scannerCalls # <<>>
        /\ scannerCalls[1] = ScannerCall("snyk", "running")
        /\ scannerCalls'[1] = ScannerCall("snyk", "failed"))
           => /\ latestFile'.kind = "json"
              /\ latestFile'.doc = stringify(fallbackResult)
              /\ latestFile'.doc.vulnerabilities = <<>>
              /\ latestFile'.doc.summary.total = 0
              /\ latestFile'.doc.metadata[1].errors # <<>>]_vars
\* C34: when all fix branches are processed, a branch whose push failed
\* gets no pull request and its push is attempted once only, and the other
\* branches are still processed: each gets its push, and its pull request
\* when its push and its request succeed
C34_PushFailureSkipsOnlyThatBranch ==
    (fnCall.fn = "processAllSentinelBranches" /\ fnResult # <<>>)
        => LET branches == fnCall.input.branches
               done == fnResult[1]
               Times(list, b) == Cardinality({i \in 1..Len(list) : list[i] = b})
           IN  /\ done.pushes = branches
               /\ done.prUrls = done.prs
               /\ \A i \in 1..Len(branches) :
                     /\ ~fnCall.input.pushed[branches[i]]
                           => /\ Times(done.prs, branches[i]) = 0
                              /\ Times(done.pushes, branches[i]) = 1
                     /\ (/\ fnCall.input.pushed[branches[i]]
                         /\ fnCall.input.octokit
                         /\ fnCall.input.created[branches[i]])
                           => Times(done.prs, branches[i]) = 1

\* the push of the first branch failed, with a client at hand whose request
\* for it would have succeeded; the later branches have their pull requests
C34_Witness ==
    /\ fnCall.fn = "processAllSentinelBranches"
    /\ fnResult # <<>>
    /\ fnCall.input.octokit
    /\ Len(fnCall.input.branches) = 3
    /\ ~fnCall.input.pushed[fnCall.input.branches[1]]
    /\ fnCall.input.created[fnCall.input.branches[1]]
    /\ fnResult[1].pushes = fnCall.input.branches
    /\ fnResult[1].prs = <<fnCall.input.branches[2], fnCall.input.branches[3]>>
\* C35: for every package name, the branch name orchestrateFix passes to
\* createPullRequest is the branch name on which applyFix committed the fix
C35_PullRequestBranchIsFixBranch ==
    (fnCall.fn = "fixBranches" /\ fnResult # <<>>)
        => fnResult[1].requested = fnResult[1].committed
\* C36: the finding orchestrateFix selects (the top diagnosis that diagnose
\* returned to it) is the diagnosis of a finding of the report the scan
\* stage returned in this run
C36_SelectedFindingIsFromReturnedReport ==
    (stage = "try" /\ diagnoses # <<>>)
        => \E i \in 1..Len(scanResult[1].vulnerabilities) :
               diagnoses[1] = makeDiagnosis(stringifyVuln(scanResult[1].vulnerabilities[i]))
\* C37: when applyFix has just written package.json, the version it wrote
\* for the package is one of the fixedIn versions of the finding it works on
C37_WrittenVersionIsFixedIn ==
    (pc = "af_install" /\ fix.wrote)
        => /\ "fixedIn" \in DOMAIN targetFinding
           /\ \E i \in 1..Len(targetFinding.fixedIn) :
                  targetFinding.fixedIn[i] = <<fix.newVersion>>
\* C38: the rollback after a failed verification alters only what the fix
\* attempt changed: when revertChanges completes, package.json holds what it
\* held before the attempt wrote it (an uncommitted edit included), and a
\* file that was untracked before the attempt, which the attempt never
\* touches, is still there
C38_RollbackLeavesEarlierChanges ==
    [][(pc = "af_clean" /\ fix'.state = "RolledBack")
          => /\ git'.work.manifest = fix.before
             /\ git'.work.notes = git.work.notes]_vars
\* C39: orchestrateDastRemediation reports 'No infrastructure
\* vulnerabilities found' (it returns at once on a report whose total is 0)
\* only for a run in which at least one scanner completed: a run in which
\* no scanner produced a result is not reported as clean
C39_CleanOnlyAfterACompletedScanner ==
    [][(/\ pc = "dast_remediate"
        /\ pc' = orchestrateReturn
        /\ scanResult[1].summary.total = 0)
          => \/ scanResult[1].metadata[1].nmapEnabled
             \/ scanResult[1].metadata[1].metasploitEnabled]_vars
====
